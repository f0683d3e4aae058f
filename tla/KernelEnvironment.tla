--------------------------- MODULE KernelEnvironment ---------------------------
\* Kernel.loadEnvironmentVariables(), the static method and the method of a
\* kernel: an .env file is put into process.env, and a schema turns process.env
\* into typed values or throws. A call runs without an await. A variable's value
\* is the string in process.env, Unset where it has none; a parsed value is
\* written as the string it prints as, Number('03000') as "3000". What trim(),
\* toLowerCase() and Number() make of the strings of an instance are constants.
EXTENDS Naturals

CONSTANTS
    Kernels,      \* instances of Kernel
    Names,        \* environment variables; NODE_ENV is one of them
    Unset,        \* undefined
    Files,        \* the .env file of every environment name
    SchemaOf,     \* the options.environmentSchema of each kernel, Unset if none
    Initial,      \* what process.env may be when the program starts
    Blanks,       \* the strings that trim() leaves nothing of
    LowerCase,    \* what toLowerCase() makes of the strings that it changes
    NumberOf,     \* what number Number() makes of the strings that are a finite one
    MaxLoads      \* bound: calls of loadEnvironmentVariables()

ASSUME NamesAssumption == "NODE_ENV" \in Names /\ "local" \in DOMAIN Files

ASSUME UnsetAssumption == Unset \notin Blanks

\* toLowerCase() does not change what a boolean prints as.
ASSUME LowerCaseAssumption == {"true", "false"} \cap DOMAIN LowerCase = {}

\* The type of a definition has a boolean's default be a boolean and a number's a
\* number: toString() prints it as what parses to it, if it is finite.
ASSUME DefaultAssumption ==
    \A k \in {k \in Kernels : SchemaOf[k] # Unset} : \A n \in DOMAIN SchemaOf[k] :
        LET d == SchemaOf[k][n]
        IN /\ d.type = "boolean" => d.defaultValue \in {Unset, "true", "false"}
           /\ d.type = "number" /\ d.defaultValue \in DOMAIN NumberOf =>
                 NumberOf[d.defaultValue] = d.defaultValue

VARIABLES
    processEnv,            \* process.env
    environmentVariables,  \* what each kernel parsed, process.env until it did
    loads                  \* calls so far

environmentVars == <<processEnv, environmentVariables, loads>>

Truthy == {"1", "true", "yes", "on"}
Falsy == {"0", "false", "no", "off"}

ToLowerCase(value) == IF value \in DOMAIN LowerCase THEN LowerCase[value] ELSE value

\* parseBooleanEnvironmentVariable(), parseNumberEnvironmentVariable(): a string
\* of another kind throws.
IsReadable(type, value) ==
    /\ type = "boolean" => ToLowerCase(value) \in Truthy \cup Falsy
    /\ type = "number" => value \in DOMAIN NumberOf

\* Mutant: only words in lower case are found among those for true.
ParsedByCase(type, value) ==
    CASE type = "boolean" -> IF value \in Truthy THEN "true" ELSE "false"
      [] type = "number"  -> NumberOf[value]
      [] OTHER            -> value

Parsed(type, value) ==
    CASE type = "boolean" -> IF ToLowerCase(value) \in Truthy THEN "true" ELSE "false"
      [] type = "number"  -> NumberOf[value]
      [] OTHER            -> value

IsMissing(value) == value = Unset \/ value \in Blanks

\* getEnvironmentVariableValue(): a default stands in for a variable that is not
\* there or blank.
ValueOrDefault(definition, value) ==
    IF IsMissing(value) THEN definition.defaultValue ELSE value

\* The value makes validateEnvironmentVariables() throw: required and missing,
\* required and blank, unreadable, or not among the choices.
Throws(definition, value) ==
    LET given == ValueOrDefault(definition, value)
    IN \/ definition.required /\ IsMissing(value)
       \/ /\ given # Unset
          /\ \/ ~IsReadable(definition.type, given)
             \/ /\ definition.choices # Unset
                /\ Parsed(definition.type, given) \notin definition.choices

Valid(schema, env) ==
    schema # Unset => \A n \in DOMAIN schema : ~Throws(schema[n], env[n])

\* What it returns: the parsed values over those of process.env. A blank optional
\* variable becomes undefined.
Validated(schema, env) ==
    [n \in Names |->
        IF n \notin DOMAIN schema THEN env[n]
        ELSE LET given == ValueOrDefault(schema[n], env[n])
             IN IF given = Unset THEN Unset ELSE Parsed(schema[n].type, given)]

\* dotenv.config(): variables that are there, blank ones too, stay unless
\* override is set. A file that is missing sets nothing.
Configured(file, override) ==
    [n \in Names |->
        IF file[n] # Unset /\ (override \/ processEnv[n] = Unset)
        THEN file[n] ELSE processEnv[n]]

\* environment ?? process.env.NODE_ENV ?? 'local', and the file of that name.
EnvironmentFile(environment) ==
    Files[IF environment # Unset THEN environment
          ELSE IF processEnv["NODE_ENV"] # Unset THEN processEnv["NODE_ENV"]
          ELSE "local"]

EnvironmentInit ==
    /\ processEnv \in Initial
    /\ environmentVariables = [k \in Kernels |-> Unset]
    /\ loads = 0

\* Kernel.loadEnvironmentVariables(). With a schema it may throw, after the file
\* was read: what the file set stays in process.env either way.
LoadStatic(environment, override) ==
    /\ loads < MaxLoads
    /\ loads' = loads + 1
    /\ processEnv' = Configured(EnvironmentFile(environment), override)
    /\ UNCHANGED environmentVariables

\* kernel.loadEnvironmentVariables() with options.schema or without: the static
\* method validates with that schema or else with the kernel's, then the kernel
\* keeps what its own schema makes of process.env. Either may throw.
Load(k, environment, override, schema) ==
    /\ loads < MaxLoads
    /\ loads' = loads + 1
    /\ processEnv' = Configured(EnvironmentFile(environment), override)
    /\ environmentVariables' =
          IF SchemaOf[k] # Unset /\ Valid(schema, processEnv') /\ Valid(SchemaOf[k], processEnv')
          THEN [environmentVariables EXCEPT ![k] = Validated(SchemaOf[k], processEnv')]
          ELSE environmentVariables
===============================================================================
