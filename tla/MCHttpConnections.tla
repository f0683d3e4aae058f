--------------------------- MODULE MCHttpConnections ---------------------------
(* An instance of HttpConnections for TLC: the errors, handlers and paths.    *)
EXTENDS HttpConnections

CONSTANTS a, b, s1, s2

Error(syntax, tooLarge, http, statuses) ==
    [syntax |-> syntax, tooLarge |-> tooLarge, http |-> http, statuses |-> statuses,
     malformed |-> FALSE]

Malformed(error) == [error EXCEPT !.malformed = TRUE]

\* Malformed JSON as body-parser and as an application throws it, a body that is
\* too large, errors with statuses, one that is none, and any other; and such as
\* are malformed, with the status of an error or another.
ErrorsOf ==
    {Error(TRUE, FALSE, FALSE, <<None, 500, None>>), Error(TRUE, FALSE, FALSE, <<>>),
     Error(FALSE, TRUE, TRUE, <<None, 400, None>>), Error(FALSE, FALSE, TRUE, <<404, None, None>>),
     Error(FALSE, FALSE, FALSE, <<None, 503, 413>>), Error(FALSE, FALSE, FALSE, <<0, None, None>>),
     Error(FALSE, FALSE, FALSE, <<None, None, 42>>), Error(FALSE, FALSE, TRUE, <<>>),
     Malformed(Error(FALSE, FALSE, FALSE, <<None, None, 422>>)),
     Malformed(Error(FALSE, FALSE, TRUE, <<302, None, None>>))}

HandlersOf == {<<>>} \cup {<<kind>> : kind \in CustomKinds}
ErrorHandlersOf ==
    {<<>>, <<"HttpErrorHandler">>, <<"HttpErrorHandler", "HttpErrorHandler">>}
RecipientsOf == {<<a>>, <<a, a>>}
================================================================================
