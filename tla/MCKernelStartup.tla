---------------------------- MODULE MCKernelStartup ----------------------------
(* An instance of KernelStartup for TLC: two kernels, each with a schema, and *)
(* the first with overrides.                                                 *)
EXTENDS KernelStartup, TLC

CONSTANTS k1, k2, Fake

\* Strings, and what trim(), toLowerCase() and Number() make of them.
BlanksOf == {"", " "}
LowerCaseOf == "TRUE" :> "true" @@ "No" :> "no"
NumberOfOf ==
    "0" :> "0" @@ "1" :> "1" @@ "3000" :> "3000" @@ "03000" :> "3000" @@ "0x0" :> "0"
        @@ "" :> "0" @@ " " :> "0"

\* process.env, the files and the schemas.
NamesOf == {"NODE_ENV", "CONTAINER_BUILD", "PORT"}
Env(nodeEnv, build, port) ==
    "NODE_ENV" :> nodeEnv @@ "CONTAINER_BUILD" :> build @@ "PORT" :> port

Environment == {Env(Unset, "true", " "), Env("test", Unset, "03000")}
FilesOf == "local" :> Env("test", "TRUE", Unset) @@ "test" :> Env(" ", " ", "0x0")
               @@ " " :> Env("local", "No", "abc")

Definition(type, required, default, choices) ==
    [type |-> type, required |-> required, defaultValue |-> default, choices |-> choices]
Port(required, default) == "PORT" :> Definition("number", required, default, {"0", "3000"})
Build(required, default) ==
    "CONTAINER_BUILD" :> Definition("boolean", required, default, Unset)
SchemasOf ==
    k1 :> (Port(FALSE, "0") @@ Build(TRUE, "false"))
    @@ k2 :> (Port(FALSE, Unset) @@ Build(FALSE, "true")
              @@ "NODE_ENV" :> Definition("string", FALSE, "", {"", "test", "local"}))
OtherSchemasOf == {Unset, "NODE_ENV" :> Definition("string", TRUE, Unset, {"test"})}

\* The source tree: an abstract contract with two children, a service that gets
\* the contract and one of another package injected; a concrete class with a
\* child; two classes with one name.
Class(dir, name) == [dir |-> dir, name |-> name, literal |-> FALSE]
Repo == Class("contracts", "Repo")
Mongo == Class("mongo", "Mongo")
Memory == Class("memory", "Memory")
OtherRepo == Class("mongo", "Repo")
App == Class("app", "App")
Publisher == Class("package", "Publisher")
Bus == Class("package", "Bus")
Text == [dir |-> "", name |-> "repo", literal |-> TRUE]

Def(class, abstract, parent, references) ==
    [id |-> IdOf(class), abstract |-> abstract, parent |-> parent,
     references |-> references, delivers |-> class]
Uses == <<IdOf(Repo), [dir |-> "src/shared", name |-> "Publisher"],
          [dir |-> "src/other", name |-> "Publisher"]>>

Catalogue ==
    {<<Def(App, FALSE, None, Uses), Def(Memory, FALSE, IdOf(Repo), <<>>),
       Def(Repo, TRUE, None, <<>>), Def(Mongo, FALSE, IdOf(Repo), <<>>)>>,
     <<Def(Repo, FALSE, None, <<>>), Def(App, FALSE, IdOf(Repo), Uses)>>,
     <<Def(Repo, TRUE, None, <<>>), Def(OtherRepo, FALSE, IdOf(Repo), <<>>)>>}

ManifestsOf == {None, CHOOSE c \in Catalogue : Len(c) = 4}

ServiceIdsOf ==
    {IdOf(t) : t \in {Repo, Mongo, Memory, OtherRepo, App}} \cup ToSet(Uses)

TokensOf == {Repo, Mongo, Memory, OtherRepo, App, Publisher, Bus, Text}
Replace(token, kind, use) == [token |-> token, kind |-> kind, use |-> use]
Replacements ==
    {Replace(Repo, "useClass", Memory), Replace(Publisher, "useClass", Bus),
     Replace(Bus, "useFactory", Publisher), Replace(Text, "useFactory", Repo),
     Replace(Repo, "useValue", Fake), Replace(Memory, "useValue", Fake)}
RequestsOf ==
    k1 :> {[containerBuild |-> b, overrides |-> o] :
              b \in {"unset", "true"}, o \in {<<>>} \cup {<<r>> : r \in Replacements}}
          \cup {[containerBuild |-> "true", overrides |-> <<r, s>>] : r, s \in Replacements}
    @@ k2 :> {[containerBuild |-> "unset", overrides |-> <<>>]}

\* Bound: with loads only the kernel without overrides is started, and once.
OneCallWithLoads ==
    loads' # 0 => options'[k1] = None /\ SumFunction(calls') <= 1
================================================================================
