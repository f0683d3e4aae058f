------------------------------- MODULE HttpErrors -------------------------------
\* HttpErrorHandler: the chain of handlers that one error goes through until one
\* of them claims it, and the error handlers that ExpressKernelServer registers
\* in a row. All of it runs without an await. An error is what the chain looks at:
\*   syntax    instanceof SyntaxError
\*   tooLarge  its type is 'entity.too.large'
\*   http      instanceof HttpError of routing-controllers
\*   statuses  its httpCode, statusCode and status, None where it has none
\*   malformed its errors are not the list that formatValidationErrors() maps
EXTENDS Naturals, Sequences, SequencesExt

CONSTANT None   \* undefined

\* The numbers that can be sent as a status.
StatusCodes == 100..999

ASSUME NoneAssumption == None \notin StatusCodes

\* What ErrorResponseHandlers of an application do with an error.
CustomKinds == {"declines", "answers", "answersAndDeclines", "claims", "throws"}
CustomStatus == 409

\* The error of a handler that threw.
Thrown == [syntax |-> FALSE, tooLarge |-> FALSE, http |-> FALSE, statuses |-> <<>>,
           malformed |-> FALSE]

\* httpCode ?? statusCode ?? status.
HttpStatus(error) ==
    LET given == {n \in DOMAIN error.statuses : error.statuses[n] # None}
    IN IF given = {} THEN None ELSE error.statuses[Min(given)]

PayloadTooLarge(error) == error.tooLarge \/ HttpStatus(error) = 413

Declines(handler, error) ==
    \/ handler = "declines"
    \/ handler = "SyntaxError" /\ ~error.syntax
    \/ handler = "PayloadTooLarge" /\ ~PayloadTooLarge(error)
    \/ handler = "HttpError" /\ HttpStatus(error) \in {None, 0} /\ ~error.http

StatusOf(handler, error) ==
    CASE handler = "SyntaxError"     -> 400
      [] handler = "PayloadTooLarge" -> 413
      [] handler = "HttpError"       -> IF HttpStatus(error) = None THEN 500
                                        ELSE HttpStatus(error)
      [] handler \in CustomKinds     -> CustomStatus
      [] OTHER                       -> 500

\* Mutant: nothing keeps a handler from sending a second head.
TryAnyway(handler, r) ==
    IF r.end # "" \/ Declines(handler, r.error) THEN r
    ELSE IF handler = "claims" THEN [r EXCEPT !.end = "claimed"]
    ELSE IF handler = "throws" THEN [r EXCEPT !.end = "threw"]
    ELSE [r EXCEPT !.head = StatusOf(handler, r.error),
                   !.end = IF handler = "answersAndDeclines" THEN "" ELSE "answered"]

\* A response under way: the error, the status of the head that was sent and the
\* one that was only set, 0 if none was, and how the handling ended, "" while it
\* goes on. Express cannot send a second head, nor set a status that is none:
\* either throws, and so does what comes between for an error that is malformed.
Try(handler, r) ==
    IF r.end # "" \/ Declines(handler, r.error) THEN r
    ELSE IF handler = "claims" THEN [r EXCEPT !.end = "claimed"]
    ELSE IF \/ handler = "throws"
            \/ r.head # 0
            \/ StatusOf(handler, r.error) \notin StatusCodes
         THEN [r EXCEPT !.end = "threw"]
    ELSE IF handler = "HttpError" /\ r.error.malformed
         THEN [r EXCEPT !.status = StatusOf(handler, r.error), !.end = "threw"]
    ELSE [r EXCEPT !.head = StatusOf(handler, r.error),
                   !.end = IF handler = "answersAndDeclines" THEN "" ELSE "answered"]

\* HttpErrorHandler.error(): what is left of r after each handler, those of the
\* application among them.
Chain(customs) ==
    <<"SyntaxError", "PayloadTooLarge">> \o customs \o <<"HttpError", "Unhandled">>

Handling(customs, r) ==
    LET after[n \in 0..Len(Chain(customs))] ==
            IF n = 0 THEN r ELSE Try(Chain(customs)[n], after[n - 1])
    IN after

HandleError(customs, r) == Handling(customs, r)[Len(Chain(customs))]

\* The default handler of ExpressKernelServer: a head that was sent makes it
\* pass the error on.
DefaultErrorHandler(r) == IF r.head # 0 THEN r ELSE Try("Unhandled", r)

\* One error handler of the application, unless the response is settled; Express
\* hands the error of one that throws to the next.
Apply(handler, customs, r) ==
    IF r.end # "" THEN r
    ELSE LET result == IF handler = "HttpErrorHandler" THEN HandleError(customs, r)
                       ELSE DefaultErrorHandler(r)
         IN IF result.end = "threw" THEN [result EXCEPT !.error = Thrown, !.end = ""]
            ELSE result

\* What is left to Express answers the status that was set, if it is one of an
\* error, or 500; or it cuts the connection of a response that has begun.
FinalHandler(r) ==
    IF r.end # "" THEN r
    ELSE IF r.head = 0 THEN [r EXCEPT !.head = IF r.status \in 400..599 THEN r.status ELSE 500,
                                    !.end = "answered"]
    ELSE [r EXCEPT !.end = "destroyed"]

\* The error handlers in the order they were registered, or the default one.
Registered(errorHandlers) ==
    IF errorHandlers = <<>> THEN <<"default">> ELSE errorHandlers

Passing(errorHandlers, customs, r) ==
    LET after[n \in 0..Len(Registered(errorHandlers))] ==
            IF n = 0 THEN r
            ELSE Apply(Registered(errorHandlers)[n], customs, after[n - 1])
    IN after

ErrorHandled(errorHandlers, customs, error, head) ==
    LET r == [error |-> error, head |-> head, status |-> 0, end |-> ""]
    IN FinalHandler(Passing(errorHandlers, customs, r)[Len(Registered(errorHandlers))])
=================================================================================
