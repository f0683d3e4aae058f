--------------------------- MODULE KernelStartupProofs ---------------------------
\* Proofs about KernelStartup: which container is the current one, that a first
\* call without services.yaml cannot be made good, that what a kernel loads is
\* as its schema documents, for any environment, files and schemas, and that a
\* compiled container resolves every token as it is declared, for any services
\* and overrides. The last needs what each operation of DependencyInjection does
\* to a container, which most of this module is about: recursive functions by
\* their steps, then lookups, then services, redirections and overrides, then
\* the overrides of a call one by one, then the kernels.
EXTENDS KernelStartup, FiniteSetTheorems, WellFoundedInduction, TLAPS

Phases == {"none", "constructed", "failed", "ready"} \cup Busy

TypeOK ==
    /\ phase \in [Kernels -> Phases]
    /\ calls \in [Kernels -> Nat]
    /\ DOMAIN options = Kernels

\* A kernel is past its constructor exactly if it was called, and has an instance
\* then.
StartedOnce ==
    \A k \in Kernels :
        /\ phase[k] \notin {"none", "constructed"} => options[k] # None /\ calls[k] > 0
        /\ options[k] = None => calls[k] = 0

\* ActiveIsConfigured, and what makes it last: an instance that waits for its use,
\* or is in use, is the static one, or its kernel is an exception.
Exempt(k) == k \in apart \cup overtaken \/ calls[k] > 1

StartingIsConfigured ==
    \A k \in Starting : Exempt(k) \/ configuredInstance = k

ActiveInKernels ==
    activeKernel # None => activeKernel \in Kernels /\ phase[activeKernel] # "none"

IInv ==
    /\ TypeOK
    /\ StartedOnce
    /\ StartingIsConfigured
    /\ ActiveInKernels
    /\ ActiveIsConfigured

LEMMA InitIInv == Init => IInv
<1> SUFFICES ASSUME Init PROVE IInv
  OBVIOUS
<1>1. /\ activeKernel = None
      /\ phase = [k \in Kernels |-> "none"]
      /\ options = [k \in Kernels |-> None]
      /\ calls = [k \in Kernels |-> 0]
  BY DEF Init
<1>2. TypeOK
  BY <1>1 DEF TypeOK, Phases
<1>3. ASSUME NEW k \in Kernels PROVE phase[k] = "none" /\ calls[k] = 0 /\ options[k] = None
  BY <1>1
<1>4. StartedOnce
  <2> SUFFICES ASSUME NEW k \in Kernels
               PROVE  /\ phase[k] \notin {"none", "constructed"} => options[k] # None /\ calls[k] > 0
                      /\ options[k] = None => calls[k] = 0
    BY Zenon DEF StartedOnce
  <2> QED
    BY <1>3
<1>5. StartingIsConfigured
  <2>1. Starting = {}
    BY ONLY <1>3 DEF Starting
  <2> QED
    BY <2>1 DEF StartingIsConfigured
<1> QED
  BY <1>1, <1>2, <1>4, <1>5 DEF IInv, ActiveInKernels, ActiveIsConfigured

\* An instance's options are never None.
LEMMA ResolveIsThere ==
  ASSUME NEW k \in Kernels, NEW request \in Requests[k]
  PROVE  Resolve(request) # None
<1>1. (IF request.containerBuild # "unset" THEN request.containerBuild = "true"
       ELSE processEnv["CONTAINER_BUILD"] = "true") \in BOOLEAN
  OBVIOUS
<1> QED
  BY <1>1, RequestsAssumption DEF Resolve

\* The instance that a step makes for k is the static one from then on, and that of
\* every other kernel that had one waiting is overtaken.
LEMMA MakeContainerIInv ==
  ASSUME IInv, NEW k \in Kernels, NEW request \in Requests[k], NEW configured \in BOOLEAN,
         MakeContainer(k, request, configured)
  PROVE  IInv'
<1> USE DEF IInv, TypeOK
<1>1. /\ phase[k] = "none" /\ options[k] = None /\ calls[k] = 0
      /\ options' = [options EXCEPT ![k] = Resolve(request)]
      /\ UNCHANGED <<activeKernel, phase, calls>>
  BY DEF MakeContainer, StartedOnce
<1>2. \/ /\ configuredInstance' = k
         /\ overtaken' = overtaken \cup {j \in Kernels \ {k} : options[j] # None}
         /\ apart' = apart
      \/ /\ apart' = apart \cup {k}
         /\ configuredInstance' = configuredInstance
         /\ overtaken' = overtaken
  BY DEF MakeContainer
<1>3. options'[k] # None
  BY <1>1, ResolveIsThere
<1>4. TypeOK' /\ StartedOnce'
  BY <1>1, <1>3 DEF StartedOnce
<1>5. \A j \in Kernels : Exempt(j) => Exempt(j)'
  BY <1>1, <1>2 DEF Exempt
<1>6. \A j \in Kernels \ {k} : options[j] # None /\ configuredInstance = j =>
         Exempt(j)' \/ configuredInstance' = j
  BY <1>2 DEF Exempt
<1>7. Exempt(k)' \/ configuredInstance' = k
  BY <1>2 DEF Exempt
<1>8. StartingIsConfigured'
  <2> SUFFICES ASSUME NEW j \in Kernels, j # k, j \in Starting'
               PROVE  Exempt(j)' \/ configuredInstance' = j
    BY <1>7 DEF StartingIsConfigured, Starting
  <2>1. j \in Starting /\ options[j] # None
    BY <1>1 DEF Starting
  <2> QED
    BY <1>5, <1>6, <2>1 DEF StartingIsConfigured
<1>9. ActiveIsConfigured'
  <2> SUFFICES ASSUME activeKernel # None, phase[activeKernel] # "constructed"
               PROVE  Exempt(activeKernel)' \/ configuredInstance' = activeKernel
    BY <1>1 DEF ActiveIsConfigured, Exempt
  <2>1. /\ activeKernel \in Kernels /\ activeKernel # k
        /\ options[activeKernel] # None
    BY <1>1 DEF ActiveInKernels, StartedOnce
  <2>2. Exempt(activeKernel) \/ configuredInstance = activeKernel
    BY DEF ActiveIsConfigured, Exempt
  <2> QED
    BY <1>1, <1>5, <1>6, <2>1, <2>2
<1>10. ActiveInKernels'
  BY <1>1 DEF ActiveInKernels
<1> QED
  BY <1>4, <1>8, <1>9, <1>10

LEMMA StartIInv ==
  ASSUME IInv, NEW k \in Kernels, NEW request \in Requests[k], Start(k, request)
  PROVE  IInv'
<1> USE DEF IInv, TypeOK
<1>1. /\ calls' = [calls EXCEPT ![k] = @ + 1]
      /\ phase' = [phase EXCEPT ![k] = "loading"]
      /\ activeKernel' = k /\ apart' = apart
  BY DEF Start, Begin
<1>2. CASE options[k] = None
  <2>1. /\ options' = [options EXCEPT ![k] = Resolve(request)]
        /\ configuredInstance' = k
        /\ overtaken' = overtaken \cup (Starting \ {k})
    BY <1>2 DEF Start
  <2>2. options'[k] # None
    BY <2>1, ResolveIsThere
  <2>3. TypeOK' /\ StartedOnce'
    BY <1>1, <2>1, <2>2 DEF StartedOnce, Phases, Busy
  <2>4. StartingIsConfigured'
    <3> SUFFICES ASSUME NEW j \in Kernels, j # k, j \in Starting'
                 PROVE  Exempt(j)'
      BY <2>1 DEF StartingIsConfigured, Starting
    <3>1. j \in Starting
      BY <1>1, <2>1 DEF Starting
    <3> QED
      BY <2>1, <3>1 DEF Exempt
  <2> QED
    BY <1>1, <2>1, <2>3, <2>4 DEF ActiveInKernels, ActiveIsConfigured
<1>3. CASE options[k] # None
  <2>1. UNCHANGED <<options, configuredInstance, overtaken>>
    BY <1>3 DEF Start
  <2>2. TypeOK' /\ StartedOnce'
    BY <1>1, <1>3, <2>1 DEF StartedOnce, Phases, Busy
  <2>3. Exempt(k)' \/ configuredInstance' = k
    <3>1. CASE calls[k] = 0
      BY <1>1, <1>3, <2>1, <3>1 DEF StartingIsConfigured, Starting, Exempt
    <3>2. CASE calls[k] # 0
      BY <1>1, <3>2 DEF Exempt
    <3> QED
      BY <3>1, <3>2
  <2>4. \A j \in Kernels \ {k} : j \in Starting' => j \in Starting /\ (Exempt(j) => Exempt(j)')
    BY <1>1, <2>1 DEF Starting, Exempt
  <2>5. \A j \in Starting' : j \in Kernels
    BY DEF Starting
  <2>6. StartingIsConfigured'
    BY <2>1, <2>3, <2>4, <2>5 DEF StartingIsConfigured
  <2> QED
    BY <1>1, <2>2, <2>3, <2>6 DEF ActiveInKernels, ActiveIsConfigured, Exempt
<1> QED
  BY <1>2, <1>3

\* A kernel whose compile() fails, before an await or after it, starts no more.
LEMMA PhaseIInv ==
  ASSUME IInv, NEW k \in Kernels, phase[k] \in Busy, NEW p \in {"failed", "compiling"},
         phase' = [phase EXCEPT ![k] = p],
         UNCHANGED <<activeKernel, configuredInstance, options, calls, apart, overtaken>>
  PROVE  IInv'
<1> USE DEF IInv, TypeOK
<1>1. TypeOK' /\ StartedOnce'
  BY DEF Phases, Busy, StartedOnce
<1>2. StartingIsConfigured'
  <2>1. Starting' \subseteq Starting
    BY DEF Starting, Busy
  <2> QED
    BY <2>1 DEF StartingIsConfigured, Exempt
<1>3. ActiveInKernels' /\ ActiveIsConfigured'
  BY DEF ActiveInKernels, ActiveIsConfigured, Busy
<1> QED
  BY <1>1, <1>2, <1>3

LEMMA CompileSettlesIInv ==
  ASSUME IInv, NEW k \in Kernels, CompileSettles(k)
  PROVE  IInv'
<1> USE DEF IInv, TypeOK
<1>1. /\ phase[k] = "compiling"
      /\ UNCHANGED <<configuredInstance, options, calls, apart, overtaken>>
  BY DEF CompileSettles, historyVars
<1>2. CASE phase' = [phase EXCEPT ![k] = "failed"] /\ activeKernel' = activeKernel
  BY <1>1, <1>2, PhaseIInv DEF Busy
<1>3. CASE phase' = [phase EXCEPT ![k] = "ready"] /\ activeKernel' = k
  <2>1. TypeOK' /\ StartedOnce'
    BY <1>1, <1>3 DEF Phases, Busy, StartedOnce
  <2>2. Starting' \subseteq Starting /\ k \in Starting
    BY <1>1, <1>3 DEF Starting, Busy, StartedOnce
  <2>3. StartingIsConfigured'
    BY <1>1, <2>2 DEF StartingIsConfigured, Exempt
  <2>4. ActiveInKernels' /\ ActiveIsConfigured'
    BY <1>1, <1>3, <2>2 DEF StartingIsConfigured, Exempt, ActiveInKernels, ActiveIsConfigured
  <2> QED
    BY <2>1, <2>3, <2>4
<1> QED
  BY <1>2, <1>3 DEF CompileSettles

LEMMA LoadServicesIInv ==
  ASSUME IInv, NEW k \in Kernels, LoadServices(k)
  PROVE  IInv'
<1>1. PICK p \in {"failed", "compiling"} : phase' = [phase EXCEPT ![k] = p]
  BY DEF LoadServices
<1>2. /\ phase[k] \in Busy
      /\ UNCHANGED <<activeKernel, configuredInstance, options, calls, apart, overtaken>>
  BY DEF LoadServices, Busy, historyVars
<1> QED
  BY <1>1, <1>2, PhaseIInv

LEMMA LoadFailsIInv ==
  ASSUME IInv, NEW k \in Kernels, LoadFails(k)
  PROVE  IInv'
<1>1. /\ phase[k] \in Busy /\ phase' = [phase EXCEPT ![k] = "failed"]
      /\ UNCHANGED <<activeKernel, configuredInstance, options, calls, apart, overtaken>>
  BY DEF LoadFails, Busy, historyVars
<1> QED
  BY <1>1, PhaseIInv

LEMMA ConstructIInv ==
  ASSUME IInv, NEW k \in Kernels, Construct(k)
  PROVE  IInv'
<1> USE DEF IInv, TypeOK
<1>1. /\ phase' = [phase EXCEPT ![k] = "constructed"] /\ activeKernel' = k /\ phase[k] = "none"
      /\ UNCHANGED <<configuredInstance, options, calls, apart, overtaken>>
  BY DEF Construct, historyVars
<1>2. TypeOK' /\ StartedOnce'
  BY <1>1 DEF Phases, Busy, StartedOnce
<1>3. Starting' \subseteq Starting
  BY <1>1 DEF Starting, Busy
<1>4. StartingIsConfigured'
  BY <1>1, <1>3 DEF StartingIsConfigured, Exempt
<1>5. ActiveInKernels' /\ ActiveIsConfigured'
  BY <1>1 DEF ActiveInKernels, ActiveIsConfigured
<1> QED
  BY <1>2, <1>4, <1>5

LEMMA StutterIInv == IInv /\ UNCHANGED diVars => IInv'
  BY DEF IInv, TypeOK, StartedOnce, StartingIsConfigured, Starting, Exempt, ActiveInKernels,
         ActiveIsConfigured, diVars, historyVars

LEMMA NextIInv == IInv /\ [Next]_vars => IInv'
<1> SUFFICES ASSUME IInv, [Next]_vars PROVE IInv'
  OBVIOUS
<1>1. CASE LoadEnvironment \/ UNCHANGED vars
  BY <1>1, StutterIInv DEF LoadEnvironment, vars
<1>2. CASE \E k \in Kernels : \E request \in Requests[k], configured \in BOOLEAN :
              MakeContainer(k, request, configured)
  BY <1>2, MakeContainerIInv
<1>3. CASE \E k \in Kernels : Construct(k)
  BY <1>3, ConstructIInv
<1>4. CASE \E k \in Kernels : \E request \in Requests[k] : Start(k, request)
  BY <1>4, StartIInv
<1>5. CASE \E k \in Kernels : LoadServices(k) \/ LoadFails(k)
  BY <1>5, LoadServicesIInv, LoadFailsIInv
<1>6. CASE \E k \in Kernels : CompileSettles(k)
  BY <1>6, CompileSettlesIInv
<1> QED
  BY <1>1, <1>2, <1>3, <1>4, <1>5, <1>6 DEF Next

LEMMA Invariance == Spec => []IInv
  BY InitIInv, NextIInv, PTL DEF Spec

\* Kernel.di and DependencyInjection.instance are one container, of the active
\* kernel, for any number of kernels and calls, with the container of options.di or
\* one of its own, unless that kernel is one of the exceptions.
THEOREM CurrentContainer == Spec => []ActiveIsConfigured
<1>1. IInv => ActiveIsConfigured
  BY DEF IInv
<1> QED
  BY <1>1, Invariance, PTL

LEMMA StuckSteps ==
  ASSUME IInv, [Next]_vars, Stuck
  PROVE  Stuck' \/ \E k \in Kernels : phase[k] = "none" /\ phase'[k] # "none"
<1> USE DEF IInv, TypeOK
<1>1. CASE LoadEnvironment \/ UNCHANGED vars
  BY <1>1 DEF LoadEnvironment, vars, diVars, Stuck
<1>2. ASSUME NEW k \in Kernels, NEW request \in Requests[k], NEW configured \in BOOLEAN,
             MakeContainer(k, request, configured)
      PROVE  Stuck'
  <2>1. /\ phase[k] = "none" /\ UNCHANGED <<phase, servicesYaml>>
        /\ \A j \in Kernels \ {k} : options'[j] = options[j]
    BY <1>2 DEF MakeContainer
  <2> QED
    BY <2>1 DEF Stuck
<1>3. ASSUME NEW k \in Kernels, Construct(k)
      PROVE  phase[k] = "none" /\ phase'[k] # "none"
  BY <1>3 DEF Construct
<1>4. ASSUME NEW k \in Kernels, NEW request \in Requests[k], Start(k, request)
      PROVE  Stuck'
  <2>1. phase[k] = "failed" /\ options[k] # None
    BY <1>4 DEF Start, Begin, Stuck, StartedOnce
  <2>2. UNCHANGED <<options, servicesYaml>> /\ phase' = [phase EXCEPT ![k] = "loading"]
    BY <1>4, <2>1 DEF Start, Begin
  <2> QED
    BY <2>1, <2>2 DEF Stuck
<1>5. ASSUME NEW k \in Kernels, LoadServices(k) \/ LoadFails(k)
      PROVE  Stuck'
  <2>1. ~options[k].containerBuild
    BY <1>5 DEF LoadServices, LoadFails, Stuck
  <2>2. /\ servicesYaml' = None /\ phase' = [phase EXCEPT ![k] = "failed"]
        /\ UNCHANGED options
    BY <1>5, <2>1 DEF LoadServices, LoadFails, Stuck
  <2> QED
    BY <2>1, <2>2 DEF Stuck
<1>6. ASSUME NEW k \in Kernels, CompileSettles(k)
      PROVE  FALSE
  BY <1>6 DEF CompileSettles, Stuck
<1> QED
  BY <1>1, <1>2, <1>3, <1>4, <1>5, <1>6 DEF Next

\* A kernel whose first call found neither services.yaml nor containerBuild does
\* not start, however often and with whatever options it is called again.
THEOREM RetryKeepsOptions == Spec => NoWayBack
<1>1. IInv /\ [Next]_vars => [Stuck => \/ Stuck'
                                       \/ \E k \in Kernels : phase[k] = "none" /\ phase'[k] # "none"]_vars
  BY StuckSteps
<1> QED
  BY <1>1, Invariance, PTL DEF Spec, NoWayBack

(***************************************************************************)
(* Environment variables.                                                   *)
(***************************************************************************)
\* What validation makes of a value that it lets through.
LEMMA ValueConforms ==
  ASSUME NEW d, NEW raw, ~Throws(d, raw),
         d.type = "boolean" => d.defaultValue \in {Unset, "true", "false"},
         d.type = "number" /\ d.defaultValue \in DOMAIN NumberOf =>
             NumberOf[d.defaultValue] = d.defaultValue
  PROVE  LET given == ValueOrDefault(d, raw)
         IN  Documented(d, raw, IF given = Unset THEN Unset ELSE Parsed(d.type, given))
<1> DEFINE given == ValueOrDefault(d, raw)
           value == IF given = Unset THEN Unset ELSE Parsed(d.type, given)
<1>1. given # Unset => /\ IsReadable(d.type, given)
                       /\ d.choices # Unset => Parsed(d.type, given) \in d.choices
  BY DEF Throws
<1>2. d.choices # Unset /\ value # Unset => value \in d.choices
  BY <1>1
<1>3. CASE IsMissing(raw)
  <2>1. given = d.defaultValue /\ ~d.required
    BY <1>3 DEF ValueOrDefault, Throws
  <2>2. value = d.defaultValue
    <3> SUFFICES ASSUME d.defaultValue # Unset PROVE Parsed(d.type, d.defaultValue) = d.defaultValue
      BY <2>1
    <3>1. CASE d.type = "boolean"
      <4>1. ToLowerCase(d.defaultValue) = d.defaultValue
        BY <3>1, LowerCaseAssumption DEF ToLowerCase
      <4> QED
        BY <3>1, <4>1 DEF Parsed, Truthy
    <3>2. CASE d.type = "number"
      <4>1. d.defaultValue \in DOMAIN NumberOf
        BY <1>1, <2>1, <3>2 DEF IsReadable
      <4> QED
        BY <3>2, <4>1 DEF Parsed
    <3>3. CASE d.type # "boolean" /\ d.type # "number"
      BY <3>3 DEF Parsed
    <3> QED
      BY <3>1, <3>2, <3>3
  <2> HIDE DEF value
  <2>3. Documented(d, raw, value)
    BY <1>2, <1>3, <2>1, <2>2 DEF Documented
  <2> QED
    BY <2>3 DEF value
<1>4. CASE ~IsMissing(raw)
  <2>1. given = raw /\ raw # Unset
    BY <1>4 DEF ValueOrDefault, IsMissing
  <2>2. value = Parsed(d.type, raw) /\ IsReadable(d.type, raw)
    BY <1>1, <2>1
  <2> HIDE DEF value
  <2>3. CASE d.type = "boolean"
    <3>1. \/ ToLowerCase(raw) \in Truthy /\ value = "true"
          \/ ToLowerCase(raw) \in Falsy /\ value = "false"
      BY <2>2, <2>3 DEF IsReadable, Parsed
    <3> QED
      BY <1>2, <1>4, <2>3, <3>1 DEF Documented, value
  <2>4. CASE d.type = "number"
    <3>1. raw \in DOMAIN NumberOf /\ value = NumberOf[raw]
      BY <2>2, <2>4 DEF IsReadable, Parsed
    <3> QED
      BY <1>2, <1>4, <2>4, <3>1 DEF Documented, value
  <2>5. CASE d.type # "boolean" /\ d.type # "number"
    <3>1. value = raw
      BY <2>2, <2>5 DEF Parsed
    <3> QED
      BY <1>2, <1>4, <2>5, <3>1 DEF Documented, value
  <2> QED
    BY <2>3, <2>4, <2>5
<1> QED
  BY <1>3, <1>4

LEMMA ValidatedConforms ==
  ASSUME NEW k \in Kernels, SchemaOf[k] # Unset, NEW env, Valid(SchemaOf[k], env),
         NEW n \in Names
  PROVE  IF n \in DOMAIN SchemaOf[k]
         THEN Documented(SchemaOf[k][n], env[n], Validated(SchemaOf[k], env)[n])
         ELSE Validated(SchemaOf[k], env)[n] = env[n]
<1>1. CASE n \in DOMAIN SchemaOf[k]
  <2> DEFINE d == SchemaOf[k][n]
             given == ValueOrDefault(d, env[n])
             value == IF given = Unset THEN Unset ELSE Parsed(d.type, given)
  <2>1. ~Throws(d, env[n])
    BY <1>1 DEF Valid
  <2>2. /\ d.type = "boolean" => d.defaultValue \in {Unset, "true", "false"}
        /\ d.type = "number" /\ d.defaultValue \in DOMAIN NumberOf =>
              NumberOf[d.defaultValue] = d.defaultValue
    BY <1>1, DefaultAssumption
  <2>3. Validated(SchemaOf[k], env)[n] = value
    BY <1>1 DEF Validated
  <2>4. Documented(d, env[n], value)
    <3> HIDE DEF d
    <3> QED
      BY <2>1, <2>2, ValueConforms
  <2> QED
    BY <1>1, <2>3, <2>4
<1>2. CASE n \notin DOMAIN SchemaOf[k]
  BY <1>2 DEF Validated
<1> QED
  BY <1>1, <1>2

OfKernels == DOMAIN environmentVariables = Kernels

LEMMA InitOfKernels == Init => OfKernels
  BY DEF Init, EnvironmentInit, OfKernels

LEMMA NextOfKernels == OfKernels /\ [Next]_vars => OfKernels'
<1> SUFFICES ASSUME OfKernels, [Next]_vars PROVE OfKernels'
  OBVIOUS
<1>1. CASE LoadEnvironment
  BY <1>1 DEF LoadEnvironment, LoadStatic, Load, OfKernels
<1>2. CASE UNCHANGED environmentVariables
  BY <1>2 DEF OfKernels
<1> QED
  BY <1>1, <1>2
  DEF Next, MakeContainer, Construct, Start, Begin, LoadServices, LoadFails, CompileSettles,
      environmentVars, vars

\* A kernel's variables change only to what its own schema documents of process.env,
\* whatever the files and the earlier loads left there.
THEOREM LoadsConformHolds == Spec => LoadsConform
<1> DEFINE Conform ==
        \A k \in Kernels : environmentVariables'[k] # environmentVariables[k] =>
          \A n \in Names :
             IF n \in DOMAIN SchemaOf[k]
             THEN Documented(SchemaOf[k][n], processEnv'[n], environmentVariables'[k][n])
             ELSE environmentVariables'[k][n] = processEnv'[n]
<1>1. OfKernels /\ [Next]_vars => [Conform]_vars
  <2> SUFFICES ASSUME OfKernels, Next, NEW k \in Kernels,
                      environmentVariables'[k] # environmentVariables[k], NEW n \in Names
               PROVE  IF n \in DOMAIN SchemaOf[k]
                      THEN Documented(SchemaOf[k][n], processEnv'[n], environmentVariables'[k][n])
                      ELSE environmentVariables'[k][n] = processEnv'[n]
    OBVIOUS
  <2>1. LoadEnvironment
    BY DEF Next, MakeContainer, Construct, Start, Begin, LoadServices, LoadFails,
           CompileSettles, environmentVars
  <2>2. PICK j \in Kernels : \E e, override, schema : Load(j, e, override, schema)
    BY <2>1 DEF LoadEnvironment, LoadStatic
  <2>3. j = k
    BY <2>2 DEF Load, OfKernels
  <2>4. /\ SchemaOf[k] # Unset
        /\ Valid(SchemaOf[k], processEnv')
        /\ environmentVariables'[k] = Validated(SchemaOf[k], processEnv')
    BY <2>2, <2>3 DEF Load, OfKernels
  <2> QED
    BY <2>4, ValidatedConforms
<1>2. Spec => []OfKernels
  BY InitOfKernels, NextOfKernels, PTL DEF Spec
<1>3. Spec => [][Conform]_vars
  BY <1>1, <1>2, PTL DEF Spec
<1> QED
  BY <1>3 DEF LoadsConform

(***************************************************************************)
(* Induction and recursion over 0..N, with sets in the place of predicates.  *)
(***************************************************************************)

\* A set of numbers has a least one.
LEMMA Least ==
  ASSUME NEW T, T \subseteq Nat, T # {}
  PROVE  \E m \in T : \A n \in T : m <= n
<1> DEFINE R == OpToRel(<, Nat)
<1>1. IsWellFoundedOn(R, Nat)
  BY NatLessThanWellFounded
<1>2. \A x, y \in Nat : x < y => <<x, y>> \in R
  BY DEF OpToRel
<1> HIDE DEF R
<1>3. PICK m \in T : \A n \in T : ~ (<<n, m>> \in R)
  BY <1>1, WFMin
<1>4. ASSUME NEW n \in T PROVE m <= n
  <2>1. m \in Nat /\ n \in Nat
    OBVIOUS
  <2>2. ~(n < m)
    BY <1>2, <1>3, <2>1
  <2> QED
    BY <2>1, <2>2
<1> QED
  BY <1>4

\* Induction, with a set of numbers for the predicate.
LEMMA UpTo ==
  ASSUME NEW N \in Nat, NEW T, 0 \in T, \A n \in Nat : n < N /\ n \in T => n + 1 \in T
  PROVE  0..N \subseteq T
<1> SUFFICES ASSUME (0..N) \ T # {} PROVE FALSE
  OBVIOUS
<1> DEFINE D == (0..N) \ T
<1>1. PICK m \in D : \A n \in D : m <= n
  <2>1. D \subseteq Nat /\ D # {}
    OBVIOUS
  <2> HIDE DEF D
  <2> QED
    BY <2>1, Least
<1>2. m # 0
  BY <1>1
<1>3. m - 1 \in 0..N /\ m - 1 < N /\ m - 1 \in Nat /\ (m - 1) + 1 = m /\ ~(m <= m - 1)
  BY <1>1, <1>2
<1>4. m - 1 \in T
  BY <1>1, <1>3
<1> QED
  BY <1>1, <1>3, <1>4

\* A function on 0..N is given by its first value and a step for each of the others.
Computes(g, r, N, step) ==
    g[0] = r /\ \A n \in 1..N : g[n] = step[n][g[n - 1]]

LEMMA Recursion ==
  ASSUME NEW S, NEW r \in S, NEW N \in Nat, NEW step \in [1..N -> [S -> S]]
  PROVE  \E g \in [0..N -> S] : Computes(g, r, N, step)
<1> DEFINE Good(n, g) == g[0] = r /\ \A k \in 1..n : g[k] = step[k][g[k - 1]]
           T == {n \in 0..N : \E g \in [0..n -> S] : Good(n, g)}
<1>1. 0 \in T
  <2>1. [k \in 0..0 |-> r] \in [0..0 -> S] /\ Good(0, [k \in 0..0 |-> r])
    OBVIOUS
  <2>2. 0 \in 0..N
    OBVIOUS
  <2> HIDE DEF Good
  <2> QED
    BY <2>1, <2>2
<1>2. ASSUME NEW n \in Nat, n < N, n \in T PROVE n + 1 \in T
  <2>1. PICK g \in [0..n -> S] : Good(n, g)
    BY <1>2
  <2> DEFINE v == step[n + 1][g[n]]
             h == [k \in 0..(n + 1) |-> IF k = n + 1 THEN v ELSE g[k]]
  <2>2. n + 1 \in 1..N /\ n \in 0..n /\ 0 \in 0..n
    BY <1>2
  <2>3. v \in S
    BY <2>2
  <2>4. \A k \in 0..(n + 1) : k = n + 1 \/ k \in 0..n
    BY <1>2
  <2>5. h \in [0..(n + 1) -> S]
    BY <2>3, <2>4
  <2>6. h[0] = r
    BY <2>1, <2>2
  <2>7. ASSUME NEW k \in 1..(n + 1) PROVE h[k] = step[k][h[k - 1]]
    <3>1. k - 1 \in 0..n /\ k - 1 # n + 1 /\ k \in 0..(n + 1)
      BY <1>2
    <3>2. h[k - 1] = g[k - 1]
      BY <3>1
    <3>3. CASE k = n + 1
      BY <3>1, <3>2, <3>3
    <3>4. CASE k # n + 1
      <4>1. k \in 1..n /\ h[k] = g[k]
        BY <1>2, <3>1, <3>4
      <4> QED
        BY <2>1, <3>2, <4>1
    <3> QED
      BY <3>3, <3>4
  <2> HIDE DEF h
  <2>8. Good(n + 1, h)
    BY <2>6, <2>7
  <2>9. n + 1 \in 0..N /\ \E f \in [0..(n + 1) -> S] : Good(n + 1, f)
    BY <2>2, <2>5, <2>8
  <2> HIDE DEF Good
  <2> QED
    BY <2>9
<1>3. N \in T
  <2> HIDE DEF T
  <2>1. 0..N \subseteq T
    BY <1>1, <1>2, UpTo
  <2>2. N \in 0..N
    OBVIOUS
  <2> QED
    BY <2>1, <2>2
<1> QED
  BY <1>3 DEF Computes

(***************************************************************************)
(* Entries: Map.set() and Map.get().                                         *)
(***************************************************************************)
Unique(entries) == \A e, f \in ToSet(entries) : e.id = f.id => e = f

LEMMA Greatest ==
  ASSUME NEW N \in Nat, NEW P, P \subseteq 1..N, P # {}
  PROVE  /\ Max(P) \in P
         /\ \A n \in P : n <= Max(P)
<1> DEFINE T == {N - n : n \in P}
<1>1. T \subseteq Nat /\ T # {}
  <2>1. \A n \in P : n \in Nat /\ N - n \in Nat
    OBVIOUS
  <2> QED
    BY <2>1
<1>2. PICK m \in T : \A k \in T : m <= k
  <2> HIDE DEF T
  <2> QED
    BY <1>1, Least
<1>3. PICK x \in P : m = N - x
  BY <1>2
<1>4. \A y \in P : x >= y
  <2>1. \A y \in P : N - y \in T
    OBVIOUS
  <2>2. \A y \in P : N - x <= N - y
    BY <1>2, <1>3, <2>1
  <2> QED
    BY <2>2
<1>5. Max(P) \in P /\ \A y \in P : Max(P) >= y
  BY <1>4 DEF Max
<1> QED
  BY <1>5

LEMMA ToSetFacts ==
  ASSUME NEW S, NEW entries \in Seq(S)
  PROVE  /\ ToSet(entries) \subseteq S
         /\ \A n \in DOMAIN entries : entries[n] \in ToSet(entries) /\ entries[n] \in S
         /\ \A e \in ToSet(entries) : \E n \in DOMAIN entries : entries[n] = e
  BY DEF ToSet

LEMMA PutFacts ==
  ASSUME NEW S, NEW entries \in Seq(S), NEW entry \in S
  PROVE  /\ Put(entries, entry) \in Seq(S)
         /\ DOMAIN entries \subseteq DOMAIN Put(entries, entry)
         /\ \A n \in DOMAIN entries :
               Put(entries, entry)[n] =
                  IF entries[n].id = entry.id THEN entry ELSE entries[n]
         /\ \A n \in DOMAIN Put(entries, entry) \ DOMAIN entries :
               Put(entries, entry)[n] = entry
         /\ \E n \in DOMAIN Put(entries, entry) : Put(entries, entry)[n] = entry
<1>1. CASE \E n \in DOMAIN entries : entries[n].id = entry.id
  <2>1. Put(entries, entry) =
           [n \in DOMAIN entries |-> IF entries[n].id = entry.id THEN entry ELSE entries[n]]
    BY <1>1 DEF Put
  <2>2. Put(entries, entry) \in Seq(S)
    BY <2>1
  <2> QED
    BY <1>1, <2>1, <2>2
<1>2. CASE ~\E n \in DOMAIN entries : entries[n].id = entry.id
  <2>1. Put(entries, entry) = Append(entries, entry)
    BY <1>2 DEF Put
  <2> QED
    BY <1>2, <2>1
<1> QED
  BY <1>1, <1>2

LEMMA PutSet ==
  ASSUME NEW S, NEW entries \in Seq(S), NEW entry \in S
  PROVE  ToSet(Put(entries, entry)) = {e \in ToSet(entries) : e.id # entry.id} \cup {entry}
<1> DEFINE after == Put(entries, entry)
<1>1. after \in Seq(S)
  BY PutFacts
<1>0. /\ DOMAIN entries \subseteq DOMAIN after
      /\ \A n \in DOMAIN entries : after[n] = IF entries[n].id = entry.id THEN entry ELSE entries[n]
      /\ \A n \in DOMAIN after \ DOMAIN entries : after[n] = entry
      /\ \E n \in DOMAIN after : after[n] = entry
  <2>1. DOMAIN entries \subseteq DOMAIN after
    BY PutFacts
  <2>2. \A n \in DOMAIN entries : after[n] = IF entries[n].id = entry.id THEN entry ELSE entries[n]
    BY PutFacts
  <2>3. \A n \in DOMAIN after \ DOMAIN entries : after[n] = entry
    BY PutFacts
  <2>4. \E n \in DOMAIN after : after[n] = entry
    BY PutFacts
  <2> QED
    BY <2>1, <2>2, <2>3, <2>4
<1> HIDE DEF after
<1>2. ASSUME NEW e \in ToSet(after) PROVE e \in {f \in ToSet(entries) : f.id # entry.id} \cup {entry}
  <2>1. PICK n \in DOMAIN after : after[n] = e
    BY <1>1, ToSetFacts
  <2>2. CASE n \in DOMAIN entries
    <3>1. e = IF entries[n].id = entry.id THEN entry ELSE entries[n]
      BY <1>0, <2>1, <2>2
    <3> QED
      BY <2>2, <3>1, ToSetFacts
  <2>3. CASE n \notin DOMAIN entries
    BY <1>0, <2>1, <2>3
  <2> QED
    BY <2>2, <2>3
<1>3. ASSUME NEW e \in ToSet(entries), e.id # entry.id PROVE e \in ToSet(after)
  <2>1. PICK n \in DOMAIN entries : entries[n] = e
    BY ToSetFacts
  <2>2. n \in DOMAIN after /\ after[n] = e
    BY <1>0, <1>3, <2>1
  <2> QED
    BY <1>1, <2>2, ToSetFacts
<1>4. entry \in ToSet(after)
  <2>1. PICK n \in DOMAIN after : after[n] = entry
    BY <1>0
  <2> QED
    BY <1>1, <2>1, ToSetFacts
<1>5. ToSet(after) = {e \in ToSet(entries) : e.id # entry.id} \cup {entry}
  BY <1>2, <1>3, <1>4
<1> QED
  BY <1>5 DEF after

LEMMA PutUnique ==
  ASSUME NEW S, NEW entries \in Seq(S), NEW entry \in S, Unique(entries)
  PROVE  Unique(Put(entries, entry))
<1>1. ToSet(Put(entries, entry)) = {e \in ToSet(entries) : e.id # entry.id} \cup {entry}
  BY PutSet
<1> QED
  BY <1>1 DEF Unique

\* An entry that is there is found.
LEMMA EntryFound ==
  ASSUME NEW entries, Unique(entries), NEW e \in ToSet(entries)
  PROVE  Entry(entries, e.id) = e
<1>1. \A f \in ToSet(entries) : f.id = e.id => f = e
  BY DEF Unique
<1> QED
  BY <1>1 DEF Entry

LEMMA EntryMissing ==
  ASSUME NEW entries, NEW id, \A e \in ToSet(entries) : e.id # id
  PROVE  Entry(entries, id) = None
  BY DEF Entry

LEMMA EntryIs ==
  ASSUME NEW entries, NEW id, Entry(entries, id) # None
  PROVE  Entry(entries, id) \in ToSet(entries) /\ Entry(entries, id).id = id
<1>1. \E e \in ToSet(entries) : e.id = id
  BY DEF Entry
<1> QED
  BY <1>1 DEF Entry

LEMMA PutEntry ==
  ASSUME NEW S, NEW entries \in Seq(S), NEW entry \in S, Unique(entries), NEW id
  PROVE  Entry(Put(entries, entry), id) =
            IF id = entry.id THEN entry ELSE Entry(entries, id)
<1>1. ToSet(Put(entries, entry)) = {e \in ToSet(entries) : e.id # entry.id} \cup {entry}
  BY PutSet
<1>2. Unique(Put(entries, entry))
  BY PutUnique
<1>3. CASE id = entry.id
  BY <1>1, <1>2, <1>3, EntryFound
<1>4. CASE id # entry.id /\ \E e \in ToSet(entries) : e.id = id
  <2>1. PICK e \in ToSet(entries) : e.id = id
    BY <1>4
  <2>2. e \in ToSet(Put(entries, entry))
    BY <1>1, <1>4, <2>1
  <2>3. Entry(Put(entries, entry), e.id) = e /\ Entry(entries, e.id) = e
    BY <1>2, <2>2, EntryFound
  <2> QED
    BY <1>4, <2>1, <2>3
<1>5. CASE id # entry.id /\ ~\E e \in ToSet(entries) : e.id = id
  <2>1. \A e \in ToSet(Put(entries, entry)) : e.id # id
    BY <1>1, <1>5
  <2> QED
    BY <1>5, <2>1, EntryMissing
<1> QED
  BY <1>3, <1>4, <1>5

LEMMA LastIdFacts ==
  ASSUME NEW S, NEW entries \in Seq(S), NEW P, P \subseteq DOMAIN entries
  PROVE  IF P = {} THEN LastId(entries, P) = None
         ELSE Max(P) \in P /\ LastId(entries, P) = entries[Max(P)].id
<1>1. Len(entries) \in Nat /\ DOMAIN entries = 1..Len(entries)
  OBVIOUS
<1>2. P # {} => Max(P) \in P
  BY <1>1, Greatest
<1> QED
  BY <1>2 DEF LastId

(***************************************************************************)
(* Containers.                                                               *)
(***************************************************************************)
KeyIds == ServiceIds \cup {OverrideId("token", t) : t \in Tokens}
TargetIds ==
    ServiceIds \cup {OverrideId(p, t) : p \in {"class", "factory", "value"}, t \in Tokens}

\* What overrides define.
Made ==
    {Service(OverrideId(p, t), v) : p \in OverridePrefixes, t \in Tokens,
                                    v \in Tokens \cup Values \cup {None}}

AliasEntries == [id : KeyIds, target : TargetIds]
TokenIds == UNION {[X -> KeyIds] : X \in SUBSET Tokens}

Containers ==
    {c \in [definitions : Seq(Definitions \cup Made), aliases : Seq(AliasEntries),
            overrideTokenIds : TokenIds, threw : BOOLEAN] :
        Unique(c.definitions) /\ Unique(c.aliases)}

LEMMA OverrideIdFacts ==
  ASSUME NEW p \in OverridePrefixes, NEW t
  PROVE  /\ OverrideId(p, t).dir = p /\ OverrideId(p, t).name = t.name
         /\ OverrideId(p, t).dir \in OverridePrefixes
         /\ IdOf(t).name = t.name
  BY DEF OverrideId, IdOf

LEMMA ServiceIdFacts ==
    /\ \A id \in ServiceIds : id.dir \notin OverridePrefixes /\ id # None
    /\ \A t \in Tokens : IdOf(t).dir \notin OverridePrefixes /\ IdOf(t).name = t.name
    /\ \A t \in Tokens : IdOf(t) # None
<1>1. \A id \in ServiceIds \cup {IdOf(t) : t \in Tokens} : id.dir \notin OverridePrefixes
  BY IdsAssumption
<1>2. None \notin ServiceIds /\ None \notin {IdOf(t) : t \in Tokens}
  BY IdsAssumption DEF Ids
<1>3. \A t \in Tokens : IdOf(t).name = t.name
  BY DEF IdOf
<1> QED
  BY <1>1, <1>2, <1>3

LEMMA MadeFacts ==
  ASSUME NEW d \in Made
  PROVE  /\ d.id.dir \in OverridePrefixes /\ d.parent = None /\ d.references = <<>>
         /\ d.abstract = FALSE
  BY OverrideIdFacts DEF Made, Service

LEMMA DefinitionFacts ==
  ASSUME NEW d \in Definitions
  PROVE  /\ d.id \in ServiceIds /\ d.id.dir \notin OverridePrefixes
         /\ d.abstract \in BOOLEAN /\ d.parent \in ServiceIds \cup {None}
         /\ d.references \in Seq(ServiceIds) /\ d.delivers \in Classes
         /\ d.id = IdOf(d.delivers)
  BY ServiceIdFacts DEF Definitions, Services

LEMMA KeyFacts ==
    /\ \A id \in KeyIds : id.dir \notin OverridePrefixes => id \in ServiceIds
    /\ \A id \in KeyIds : id.dir \in OverridePrefixes => id.dir = "token"
    /\ \A id \in KeyIds : id # None
    /\ KeyIds \subseteq Ids /\ TargetIds \subseteq Ids
<1>1. ASSUME NEW t \in Tokens
      PROVE  OverrideId("token", t).dir = "token" /\ OverrideId("token", t).dir \in OverridePrefixes
  BY DEF OverrideId, OverridePrefixes
<1>2. KeyIds \subseteq Ids /\ TargetIds \subseteq Ids
  BY DEF OverridePrefixes, KeyIds, TargetIds, Ids
<1>3. \A id \in KeyIds : id \in ServiceIds \/ \E t \in Tokens : id = OverrideId("token", t)
  BY DEF KeyIds
<1>4. None \notin Ids
  BY IdsAssumption
<1>5. \A id \in KeyIds : id.dir \in OverridePrefixes => id.dir = "token"
  BY <1>1, <1>3, ServiceIdFacts
<1> QED
  BY <1>1, <1>2, <1>3, <1>4, <1>5, ServiceIdFacts

\* What maps hold is never undefined.
LEMMA NoneIsNoEntry ==
    None \notin Definitions \cup Made /\ None \notin AliasEntries
<1>1. Definitions \subseteq Services
  BY DEF Definitions
<1>2. ASSUME NEW p \in OverridePrefixes, NEW t \in Tokens, NEW v \in Tokens \cup Values \cup {None}
      PROVE  Service(OverrideId(p, t), v) \in Services
  <2>1. OverrideId(p, t) \in Ids
    BY DEF Ids
  <2>2. <<>> \in Seq(ServiceIds)
    OBVIOUS
  <2> QED
    BY <2>1, <2>2 DEF Services, Service
<1>3. Made \subseteq Services
  BY <1>2 DEF Made
<1>4. AliasEntries \subseteq [id : Ids, target : Ids]
  BY KeyFacts DEF AliasEntries
<1>5. None \notin Services /\ None \notin [id : Ids, target : Ids]
  BY IdsAssumption
<1> QED
  BY <1>1, <1>3, <1>4, <1>5

LEMMA ContainerFacts ==
  ASSUME NEW c \in Containers
  PROVE  /\ c.definitions \in Seq(Definitions \cup Made) /\ c.aliases \in Seq(AliasEntries)
         /\ c.overrideTokenIds \in TokenIds /\ c.threw \in BOOLEAN
         /\ Unique(c.definitions) /\ Unique(c.aliases)
  BY DEF Containers

LEMMA TokenIdsFacts ==
  ASSUME NEW f \in TokenIds
  PROVE  DOMAIN f \subseteq Tokens /\ \A t \in DOMAIN f : f[t] \in KeyIds
  BY DEF TokenIds

\* The id of the last entry that is one of the good ones.
LastIs(entries, good, id) ==
    \/ id = None /\ \A e \in ToSet(entries) : e \notin good
    \/ \E e \in ToSet(entries) : e \in good /\ id = e.id

LEMMA LastOf ==
  ASSUME NEW S, NEW entries \in Seq(S), NEW good, NEW P,
         P = {n \in DOMAIN entries : entries[n] \in good}
  PROVE  LastIs(entries, good, LastId(entries, P))
<1>1. CASE P = {}
  <2>1. LastId(entries, P) = None
    BY <1>1 DEF LastId
  <2>2. \A e \in ToSet(entries) : e \notin good
    BY <1>1, ToSetFacts
  <2> QED
    BY <2>1, <2>2 DEF LastIs
<1>2. CASE P # {}
  <2>1. Max(P) \in P /\ LastId(entries, P) = entries[Max(P)].id
    BY <1>2, LastIdFacts
  <2>2. entries[Max(P)] \in good /\ entries[Max(P)] \in ToSet(entries)
    BY <2>1, ToSetFacts
  <2> QED
    BY <2>1, <2>2 DEF LastIs
<1> QED
  BY <1>1, <1>2

LEMMA RegisteredFacts ==
  ASSUME NEW c \in Containers, NEW t
  PROVE  \/ /\ FindRegisteredServiceId(c, t) = None
            /\ \A d \in ToSet(c.definitions) : ~IdNamesService(d.id, t)
         \/ \E d \in ToSet(c.definitions) :
               IdNamesService(d.id, t) /\ FindRegisteredServiceId(c, t) = d.id
<1> DEFINE good == {d \in ToSet(c.definitions) : IdNamesService(d.id, t)}
           P == {n \in DOMAIN c.definitions : IdNamesService(c.definitions[n].id, t)}
<1>1. c.definitions \in Seq(Definitions \cup Made)
  BY ContainerFacts
<1>2. P = {n \in DOMAIN c.definitions : c.definitions[n] \in good}
  BY <1>1, ToSetFacts
<1>3. FindRegisteredServiceId(c, t) = LastId(c.definitions, P)
  BY DEF FindRegisteredServiceId
<1>4. LastIs(c.definitions, good, LastId(c.definitions, P))
  <2> HIDE DEF P, good
  <2> QED
    BY ONLY <1>1, <1>2, LastOf
<1> QED
  BY <1>3, <1>4 DEF LastIs

LEMMA AliasFacts ==
  ASSUME NEW c \in Containers, NEW t
  PROVE  \/ /\ FindAliasServiceId(c, t) = None
            /\ \A a \in ToSet(c.aliases) : ~IdNamesService(a.id, t)
         \/ \E a \in ToSet(c.aliases) :
               IdNamesService(a.id, t) /\ FindAliasServiceId(c, t) = a.id
<1> DEFINE good == {a \in ToSet(c.aliases) : IdNamesService(a.id, t)}
           P == {n \in DOMAIN c.aliases : IdNamesService(c.aliases[n].id, t)}
<1>1. c.aliases \in Seq(AliasEntries)
  BY ContainerFacts
<1>2. P = {n \in DOMAIN c.aliases : c.aliases[n] \in good}
  BY <1>1, ToSetFacts
<1>3. FindAliasServiceId(c, t) = LastId(c.aliases, P)
  BY DEF FindAliasServiceId
<1>4. LastIs(c.aliases, good, LastId(c.aliases, P))
  <2> HIDE DEF P, good
  <2> QED
    BY ONLY <1>1, <1>2, LastOf
<1> QED
  BY <1>3, <1>4 DEF LastIs

ChildOf(d, t) == ~d.abstract /\ d.parent # None /\ IdNamesService(d.parent, t)

LEMMA ChildFacts ==
  ASSUME NEW c \in Containers, NEW t
  PROVE  \/ FindConcreteChildServiceId(c, t) = None
         \/ \E d \in ToSet(c.definitions) :
               ChildOf(d, t) /\ FindConcreteChildServiceId(c, t) = d.id
<1> DEFINE good == {d \in ToSet(c.definitions) : ChildOf(d, t)}
           P == {n \in DOMAIN c.definitions : ChildOf(c.definitions[n], t)}
<1>1. c.definitions \in Seq(Definitions \cup Made)
  BY ContainerFacts
<1>2. P = {n \in DOMAIN c.definitions : c.definitions[n] \in good}
  BY <1>1, ToSetFacts
<1>3. FindConcreteChildServiceId(c, t) = LastId(c.definitions, P)
  BY DEF FindConcreteChildServiceId, ChildOf
<1>4. LastIs(c.definitions, good, LastId(c.definitions, P))
  <2> HIDE DEF P, good
  <2> QED
    BY ONLY <1>1, <1>2, LastOf
<1> QED
  BY <1>3, <1>4 DEF LastIs

LEMMA AliasOfContainer ==
  ASSUME NEW c \in Containers, NEW a \in ToSet(c.aliases)
  PROVE  /\ a \in AliasEntries /\ a.id \in KeyIds /\ a.target \in TargetIds
         /\ a.id # None /\ a # None
         /\ a.id.dir \notin OverridePrefixes => a.id \in ServiceIds
<1>1. c.aliases \in Seq(AliasEntries)
  BY ContainerFacts
<1>2. a \in AliasEntries
  BY <1>1, ToSetFacts
<1>3. a.id \in KeyIds /\ a.target \in TargetIds
  BY <1>2 DEF AliasEntries
<1> QED
  BY <1>2, <1>3, KeyFacts, NoneIsNoEntry

LEMMA DefinitionOfContainer ==
  ASSUME NEW c \in Containers, NEW d \in ToSet(c.definitions)
  PROVE  /\ d \in Definitions \cup Made /\ d # None
         /\ d.id.dir \notin OverridePrefixes => d \in Definitions
         /\ d.id.dir \in OverridePrefixes => d \in Made
<1>1. c.definitions \in Seq(Definitions \cup Made)
  BY ContainerFacts
<1>2. d \in Definitions \cup Made
  BY <1>1, ToSetFacts
<1> QED
  BY <1>2, MadeFacts, DefinitionFacts, NoneIsNoEntry

(***************************************************************************)
(* container.get() and getService().                                         *)
(***************************************************************************)
\* What the definition of an id delivers.
Lookup(c, id) ==
    IF Entry(c.definitions, id) = None THEN None
    ELSE IF Entry(c.definitions, id).abstract THEN None
    ELSE Entry(c.definitions, id).delivers

Deliverable == Tokens \cup Values \cup {None}

LEMMA LookupType ==
  ASSUME NEW c \in Containers, NEW id
  PROVE  Lookup(c, id) \in Deliverable
<1>1. CASE Entry(c.definitions, id) = None
  BY <1>1 DEF Lookup, Deliverable
<1>2. CASE Entry(c.definitions, id) # None
  <2>1. PICK d : d = Entry(c.definitions, id)
    OBVIOUS
  <2>2. d \in ToSet(c.definitions)
    BY <1>2, <2>1, EntryIs
  <2>3. c.definitions \in Seq(Definitions \cup Made)
    BY ContainerFacts
  <2>4. d \in Definitions \cup Made
    BY <2>2, <2>3, ToSetFacts
  <2>5. d \in Definitions => d.delivers \in Deliverable
    BY DefinitionFacts DEF Classes, Deliverable
  <2>6. d \in Made => d.delivers \in Deliverable
    BY DEF Made, Service, Deliverable
  <2>7. Lookup(c, id) \in {None, d.delivers}
    BY <1>2, <2>1 DEF Lookup
  <2> QED
    BY <2>4, <2>5, <2>6, <2>7 DEF Deliverable
<1> QED
  BY <1>1, <1>2

\* container.get() looks up some id, or gives up.
LEMMA GetLooksUp ==
  ASSUME NEW c, NEW id
  PROVE  \E g : Get(c, id) \in {None, Lookup(c, g)}
<1> DEFINE Target ==
             CHOOSE f : f = [hops \in 0..Len(c.aliases) + 1 |->
                IF hops = 0 THEN id
                ELSE LET alias == Entry(c.aliases, f[hops - 1])
                     IN IF alias = None THEN f[hops - 1] ELSE alias.target]
           target == Target[IF AliasOfAlias THEN Len(c.aliases) + 1 ELSE 1]
<1>1. Get(c, id) = LET definition == Entry(c.definitions, target)
                   IN IF \/ AliasOfAlias /\ Entry(c.aliases, target) # None
                         \/ definition = None
                      THEN None
                      ELSE IF definition.abstract THEN None ELSE definition.delivers
  BY DEF Get
<1> HIDE DEF target
<1>2. Get(c, id) \in {None, Lookup(c, target)}
  BY <1>1 DEF Lookup
<1> QED
  BY <1>2

LEMMA GetType ==
  ASSUME NEW c \in Containers, NEW id
  PROVE  Get(c, id) \in Deliverable
<1>1. PICK g : Get(c, id) \in {None, Lookup(c, g)}
  BY GetLooksUp
<1> QED
  BY <1>1, LookupType DEF Deliverable

LEMMA GetServiceType ==
  ASSUME NEW c \in Containers, NEW t
  PROVE  GetService(c, t) \in Deliverable
  BY GetType DEF GetService

\* Where aliases lead.
Leads(c, id, Target) ==
    /\ Target[0] = id
    /\ \A n \in 1..Len(c.aliases) + 1 :
          Target[n] = IF Entry(c.aliases, Target[n - 1]) = None THEN Target[n - 1]
                      ELSE Entry(c.aliases, Target[n - 1]).target

LEMMA GetFollows ==
  ASSUME NEW c \in Containers, NEW id
  PROVE  \E Target : /\ Leads(c, id, Target)
                     /\ LET target == Target[IF AliasOfAlias THEN Len(c.aliases) + 1 ELSE 1]
                        IN Get(c, id) = IF AliasOfAlias /\ Entry(c.aliases, target) # None
                                        THEN None ELSE Lookup(c, target)
<1> DEFINE S == TargetIds \cup {id}
           Next1(x) == IF Entry(c.aliases, x) = None THEN x ELSE Entry(c.aliases, x).target
           N == Len(c.aliases) + 1
           step == [n \in 1..N |-> [x \in S |-> Next1(x)]]
           Body(f) == [hops \in 0..N |->
                IF hops = 0 THEN id
                ELSE LET alias == Entry(c.aliases, f[hops - 1])
                     IN IF alias = None THEN f[hops - 1] ELSE alias.target]
           Target == CHOOSE f : f = Body(f)
<1>1. c.aliases \in Seq(AliasEntries)
  BY ContainerFacts
<1>2. N \in Nat /\ 1 \in 1..N
  BY <1>1
<1>3. ASSUME NEW x \in S PROVE Next1(x) \in S
  <2>1. CASE Entry(c.aliases, x) = None
    BY <2>1
  <2>2. CASE Entry(c.aliases, x) # None
    <3>1. Entry(c.aliases, x) \in ToSet(c.aliases)
      BY <2>2, EntryIs
    <3>2. Entry(c.aliases, x) \in AliasEntries
      BY <1>1, <3>1, ToSetFacts
    <3> QED
      BY <2>2, <3>2 DEF AliasEntries
  <2> QED
    BY <2>1, <2>2
<1>4. step \in [1..N -> [S -> S]]
  BY <1>3
<1>5. PICK g \in [0..N -> S] : Computes(g, id, N, step)
  <2>1. id \in S
    OBVIOUS
  <2> HIDE DEF step, N, S
  <2> QED
    BY <1>2, <1>4, <2>1, Recursion
<1>6. \A n \in 1..N : g[n] = Next1(g[n - 1])
  <2>1. \A n \in 1..N : n - 1 \in 0..N
    BY <1>2
  <2>2. \A n \in 1..N : g[n] = step[n][g[n - 1]] /\ g[n - 1] \in S
    BY <1>5, <2>1 DEF Computes
  <2> HIDE DEF S, N
  <2> QED
    BY <2>2
<1>7. g = Body(g)
  <2>1. g[0] = id
    BY <1>5 DEF Computes
  <2>2. \A n \in 0..N : n = 0 \/ n \in 1..N
    BY <1>2
  <2>3. \A n \in 0..N : g[n] = Body(g)[n]
    BY <1>6, <2>1, <2>2
  <2> QED
    BY <1>5, <2>3
<1>8. Target = Body(Target)
  BY <1>7
<1>9. Leads(c, id, Target)
  <2> HIDE DEF Target
  <2>1. Target[0] = id
    BY <1>2, <1>8
  <2>2. \A n \in 1..N : n # 0 /\ n \in 0..N
    BY <1>2
  <2>3. \A n \in 1..N : Target[n] = Next1(Target[n - 1])
    BY <1>8, <2>2
  <2> QED
    BY <2>1, <2>3 DEF Leads
<1> DEFINE target == Target[IF AliasOfAlias THEN Len(c.aliases) + 1 ELSE 1]
<1>10. Get(c, id) = LET definition == Entry(c.definitions, target)
                   IN IF \/ AliasOfAlias /\ Entry(c.aliases, target) # None
                         \/ definition = None
                      THEN None
                      ELSE IF definition.abstract THEN None ELSE definition.delivers
  BY DEF Get
<1>11. Get(c, id) = IF AliasOfAlias /\ Entry(c.aliases, target) # None
                    THEN None ELSE Lookup(c, target)
  <2> HIDE DEF target
  <2> QED
    BY <1>10 DEF Lookup
<1> QED
  BY <1>9, <1>11

LEMMA GetDirect ==
  ASSUME NEW c \in Containers, NEW id, Entry(c.aliases, id) = None
  PROVE  Get(c, id) = Lookup(c, id)
<1> DEFINE N == Len(c.aliases) + 1
<1>1. c.aliases \in Seq(AliasEntries)
  BY ContainerFacts
<1>2. N \in Nat /\ 1 \in 0..N /\ N \in 0..N
  BY <1>1
<1>3. PICK Target :
         /\ Leads(c, id, Target)
         /\ LET target == Target[IF AliasOfAlias THEN N ELSE 1]
            IN Get(c, id) = IF AliasOfAlias /\ Entry(c.aliases, target) # None
                            THEN None ELSE Lookup(c, target)
  BY GetFollows
<1>4. \A n \in 1..N : Target[n] = IF Entry(c.aliases, Target[n - 1]) = None THEN Target[n - 1]
                                  ELSE Entry(c.aliases, Target[n - 1]).target
  BY <1>3 DEF Leads
<1> DEFINE T == {n \in 0..N : Target[n] = id}
<1>5. 0 \in T
  BY <1>2, <1>3 DEF Leads
<1>6. ASSUME NEW n \in Nat, n < N, n \in T PROVE n + 1 \in T
  <2>1. n + 1 \in 1..N /\ (n + 1) - 1 = n /\ n + 1 \in 0..N
    BY <1>2, <1>6
  <2>2. Target[n] = id
    BY <1>6
  <2>3. Target[n + 1] = IF Entry(c.aliases, Target[n]) = None THEN Target[n]
                        ELSE Entry(c.aliases, Target[n]).target
    BY <1>4, <2>1
  <2> QED
    BY <2>1, <2>2, <2>3
<1>7. 0..N \subseteq T
  <2> HIDE DEF T, N
  <2> QED
    BY <1>2, <1>5, <1>6, UpTo
<1>8. Target[IF AliasOfAlias THEN N ELSE 1] = id
  BY <1>2, <1>7
<1> QED
  BY <1>3, <1>8

LEMMA GetAliased ==
  ASSUME NEW c \in Containers, NEW id, NEW a, Entry(c.aliases, id) = a, a # None,
         AliasOfAlias => Entry(c.aliases, a.target) = None
  PROVE  Get(c, id) = Lookup(c, a.target)
<1> DEFINE N == Len(c.aliases) + 1
<1>1. c.aliases \in Seq(AliasEntries)
  BY ContainerFacts
<1>2. N \in Nat /\ 1 \in 1..N /\ N \in 1..N /\ 0 \in 0..N
  BY <1>1
<1>3. PICK Target :
         /\ Leads(c, id, Target)
         /\ LET target == Target[IF AliasOfAlias THEN N ELSE 1]
            IN Get(c, id) = IF AliasOfAlias /\ Entry(c.aliases, target) # None
                            THEN None ELSE Lookup(c, target)
  BY GetFollows
<1>4. \A n \in 1..N : Target[n] = IF Entry(c.aliases, Target[n - 1]) = None THEN Target[n - 1]
                                  ELSE Entry(c.aliases, Target[n - 1]).target
  BY <1>3 DEF Leads
<1>5. Target[1] = a.target
  <2>1. Target[0] = id /\ 1 - 1 = 0
    BY <1>3 DEF Leads
  <2> QED
    BY <1>2, <1>4, <2>1
<1>6. CASE ~AliasOfAlias
  BY <1>3, <1>5, <1>6
<1>7. CASE AliasOfAlias
  <2> DEFINE T == {n \in 0..N : n = 0 \/ Target[n] = a.target}
  <2>1. 0 \in T
    BY <1>2
  <2>2. ASSUME NEW n \in Nat, n < N, n \in T PROVE n + 1 \in T
    <3>1. n + 1 \in 1..N /\ (n + 1) - 1 = n /\ n + 1 \in 0..N
      BY <1>2, <2>2
    <3>2. CASE n = 0
      BY <1>5, <3>1, <3>2
    <3>3. CASE n # 0
      <4>1. Target[n] = a.target
        BY <2>2, <3>3
      <4>2. Target[n + 1] = IF Entry(c.aliases, Target[n]) = None THEN Target[n]
                            ELSE Entry(c.aliases, Target[n]).target
        BY <1>4, <3>1
      <4> QED
        BY <1>7, <3>1, <4>1, <4>2
    <3> QED
      BY <3>2, <3>3
  <2>3. 0..N \subseteq T
    <3> HIDE DEF T, N
    <3> QED
      BY <1>2, <2>1, <2>2, UpTo
  <2>4. N # 0 /\ N \in 0..N
    BY <1>2
  <2>5. Target[N] = a.target
    BY <2>3, <2>4
  <2> QED
    BY <1>3, <1>7, <2>5
<1> QED
  BY <1>6, <1>7

LEMMA EntryGone ==
  ASSUME NEW entries, NEW id, Entry(entries, id) # None
  PROVE  \E e \in ToSet(entries) : e.id = id
  BY EntryIs

\* A service that is delivered is one that hasService() knows.
LEMMA DeliveredIsKnown ==
  ASSUME NEW c \in Containers, NEW t \in Tokens, GetService(c, t) # None
  PROVE  HasService(c, t)
<1> SUFFICES ASSUME ~HasService(c, t) PROVE FALSE
  OBVIOUS
<1>1. /\ t \notin DOMAIN c.overrideTokenIds
      /\ FindAliasServiceId(c, t) = None
      /\ FindConcreteChildServiceId(c, t) = None
      /\ FindRegisteredServiceId(c, t) = None
  BY DEF HasService
<1>2. GetService(c, t) = Get(c, IdOf(t))
  BY <1>1 DEF GetService
<1>3. IdOf(t).dir \notin OverridePrefixes /\ IdOf(t).name = t.name
  BY ServiceIdFacts
<1>4. Entry(c.aliases, IdOf(t)) = None
  <2> SUFFICES ASSUME Entry(c.aliases, IdOf(t)) # None PROVE FALSE
    OBVIOUS
  <2>1. PICK a \in ToSet(c.aliases) : a.id = IdOf(t)
    BY EntryGone
  <2>2. CASE t.literal
    BY <2>2 DEF HasService
  <2>3. CASE ~t.literal
    <3>1. IdNamesService(a.id, t)
      BY <1>3, <2>1, <2>3 DEF IdNamesService
    <3>2. \A b \in ToSet(c.aliases) : b.id # None
      BY AliasOfContainer
    <3> QED
      BY <1>1, <3>1, <3>2, AliasFacts
  <2> QED
    BY <2>2, <2>3
<1>5. Get(c, IdOf(t)) = Lookup(c, IdOf(t))
  BY <1>4, GetDirect
<1>6. Entry(c.definitions, IdOf(t)) # None
  BY <1>2, <1>5 DEF Lookup
<1>7. PICK d \in ToSet(c.definitions) : d.id = IdOf(t)
  BY <1>6, EntryGone
<1>8. CASE t.literal
  BY <1>6, <1>8 DEF HasService
<1>9. CASE ~t.literal
  <2>1. IdNamesService(d.id, t)
    BY <1>3, <1>7, <1>9 DEF IdNamesService
  <2>2. PICK e \in ToSet(c.definitions) : FindRegisteredServiceId(c, t) = e.id /\ IdNamesService(e.id, t)
    BY <2>1, RegisteredFacts
  <2>3. e.id # None
    <3>3. e \in Definitions
      BY <2>2, DefinitionOfContainer DEF IdNamesService
    <3> QED
      BY <3>3, DefinitionFacts, ServiceIdFacts
  <2> QED
    BY <1>1, <2>2, <2>3
<1> QED
  BY <1>8, <1>9

(***************************************************************************)
(* The ids that a token may be asked by.                                     *)
(***************************************************************************)
LEMMA AppendSet ==
  ASSUME NEW S, NEW s \in Seq(S), NEW x \in S
  PROVE  Append(s, x) \in Seq(S) /\ ToSet(Append(s, x)) = ToSet(s) \cup {x}
<1>1. Append(s, x) \in Seq(S)
  OBVIOUS
<1>2. ToSet(Append(s, x)) \subseteq ToSet(s) \cup {x}
  BY DEF ToSet
<1>3. \A n \in DOMAIN s : n \in DOMAIN Append(s, x) /\ Append(s, x)[n] = s[n]
  OBVIOUS
<1>4. Len(s) + 1 \in DOMAIN Append(s, x) /\ Append(s, x)[Len(s) + 1] = x
  OBVIOUS
<1>5. ToSet(s) \cup {x} \subseteq ToSet(Append(s, x))
  BY <1>3, <1>4 DEF ToSet
<1> QED
  BY <1>1, <1>2, <1>5

LEMMA ConcatSet ==
  ASSUME NEW S, NEW s \in Seq(S), NEW q \in Seq(S)
  PROVE  s \o q \in Seq(S) /\ ToSet(s \o q) = ToSet(s) \cup ToSet(q)
<1>1. s \o q \in Seq(S)
  OBVIOUS
<1>2. ToSet(s \o q) \subseteq ToSet(s) \cup ToSet(q)
  BY DEF ToSet
<1>3. \A n \in DOMAIN s : n \in DOMAIN (s \o q) /\ (s \o q)[n] = s[n]
  OBVIOUS
<1>4. \A n \in DOMAIN q : n + Len(s) \in DOMAIN (s \o q) /\ (s \o q)[n + Len(s)] = q[n]
  OBVIOUS
<1>5. ToSet(s) \cup ToSet(q) \subseteq ToSet(s \o q)
  BY <1>3, <1>4 DEF ToSet
<1> QED
  BY <1>1, <1>2, <1>5

LEMMA NamingSteps ==
  ASSUME NEW references \in Seq(ServiceIds), NEW t
  PROVE  \E f : /\ f[0] = <<>>
                /\ \A n \in 1..Len(references) :
                      f[n] = IF IdNamesService(references[n], t)
                             THEN Append(f[n - 1], references[n]) ELSE f[n - 1]
                /\ Naming(references, t) = f[Len(references)]
<1> DEFINE S == Seq(ServiceIds)
           N == Len(references)
           Step(n, s) == IF IdNamesService(references[n], t)
                         THEN Append(s, references[n]) ELSE s
           step == [n \in 1..N |-> [s \in S |-> Step(n, s)]]
           Body(f) == [n \in 0..N |->
                IF n = 0 THEN <<>>
                ELSE IF IdNamesService(references[n], t)
                THEN Append(f[n - 1], references[n]) ELSE f[n - 1]]
           F == CHOOSE f : f = Body(f)
<1>1. N \in Nat
  OBVIOUS
<1>2. step \in [1..N -> [S -> S]]
  OBVIOUS
<1>3. PICK g \in [0..N -> S] : Computes(g, <<>>, N, step)
  <2>1. <<>> \in S
    OBVIOUS
  <2> HIDE DEF step, N, S
  <2> QED
    BY <1>1, <1>2, <2>1, Recursion
<1>4. \A n \in 1..N : g[n] = Step(n, g[n - 1])
  <2>1. \A n \in 1..N : n - 1 \in 0..N
    BY <1>1
  <2>2. \A n \in 1..N : g[n] = step[n][g[n - 1]] /\ g[n - 1] \in S
    BY <1>3, <2>1 DEF Computes
  <2> HIDE DEF S, N, Step
  <2> QED
    BY <2>2
<1>5. g = Body(g)
  <2>1. g[0] = <<>>
    BY <1>3 DEF Computes
  <2>2. \A n \in 0..N : n = 0 \/ n \in 1..N
    BY <1>1
  <2>3. \A n \in 0..N : g[n] = Body(g)[n]
    BY <1>4, <2>1, <2>2
  <2> QED
    BY <1>3, <2>3
<1>6. F = Body(F)
  BY <1>5
<1>7. Naming(references, t) = F[N]
  BY DEF Naming
<1>8. F[0] = <<>> /\ \A n \in 1..N : F[n] = Step(n, F[n - 1])
  <2> HIDE DEF F
  <2>1. F[0] = <<>>
    BY <1>1, <1>6
  <2>2. \A n \in 1..N : n # 0 /\ n \in 0..N
    BY <1>1
  <2> QED
    BY <1>6, <2>1, <2>2
<1> HIDE DEF F
<1> QED
  BY <1>7, <1>8

LEMMA NamingFacts ==
  ASSUME NEW references \in Seq(ServiceIds), NEW t
  PROVE  /\ Naming(references, t) \in Seq(ServiceIds)
         /\ ToSet(Naming(references, t)) = {r \in ToSet(references) : IdNamesService(r, t)}
<1> DEFINE N == Len(references)
<1>1. PICK f : /\ f[0] = <<>>
               /\ \A n \in 1..N :
                      f[n] = IF IdNamesService(references[n], t)
                             THEN Append(f[n - 1], references[n]) ELSE f[n - 1]
               /\ Naming(references, t) = f[N]
  BY NamingSteps
<1> DEFINE Found(n) == {references[m] : m \in {k \in 1..n : IdNamesService(references[k], t)}}
           T == {n \in 0..N : f[n] \in Seq(ServiceIds) /\ ToSet(f[n]) = Found(n)}
<1>2. N \in Nat /\ 0 \in 0..N /\ N \in 0..N
  OBVIOUS
<1>3. 0 \in T
  <2>1. Found(0) = {} /\ <<>> \in Seq(ServiceIds) /\ ToSet(<<>>) = {}
    BY DEF ToSet
  <2> QED
    BY <1>1, <1>2, <2>1
<1>4. ASSUME NEW n \in Nat, n < N, n \in T PROVE n + 1 \in T
  <2>1. n + 1 \in 1..N /\ (n + 1) - 1 = n /\ n + 1 \in 0..N
    BY <1>2, <1>4
  <2>2. f[n] \in Seq(ServiceIds) /\ ToSet(f[n]) = Found(n)
    BY <1>4
  <2>3. f[n + 1] = IF IdNamesService(references[n + 1], t)
                   THEN Append(f[n], references[n + 1]) ELSE f[n]
    BY <1>1, <2>1
  <2>4. references[n + 1] \in ServiceIds
    BY <2>1
  <2>5. \A k : k \in 1..(n + 1) <=> k \in 1..n \/ k = n + 1
    BY <1>4
  <2>6. CASE IdNamesService(references[n + 1], t)
    <3>1. Found(n + 1) = Found(n) \cup {references[n + 1]}
      BY <2>5, <2>6
    <3>2. f[n + 1] \in Seq(ServiceIds) /\ ToSet(f[n + 1]) = ToSet(f[n]) \cup {references[n + 1]}
      BY <2>2, <2>3, <2>4, <2>6, AppendSet
    <3> HIDE DEF Found
    <3> QED
      BY <2>1, <2>2, <3>1, <3>2
  <2>7. CASE ~IdNamesService(references[n + 1], t)
    <3>1. Found(n + 1) = Found(n)
      BY <2>5, <2>7
    <3> HIDE DEF Found
    <3> QED
      BY <2>1, <2>2, <2>3, <2>7, <3>1
  <2> QED
    BY <2>6, <2>7
<1>5. 0..N \subseteq T
  <2> HIDE DEF T, N
  <2> QED
    BY <1>2, <1>3, <1>4, UpTo
<1>6. f[N] \in Seq(ServiceIds) /\ ToSet(f[N]) = Found(N)
  BY <1>2, <1>5
<1>7. Found(N) = {r \in ToSet(references) : IdNamesService(r, t)}
  <2>1. 1..N = DOMAIN references
    OBVIOUS
  <2> QED
    BY <2>1 DEF ToSet
<1> HIDE DEF Found
<1> QED
  BY <1>1, <1>6, <1>7

\* Ids of the constructor arguments of the services.
ReferencedIds(c) == UNION {ToSet(d.references) : d \in ToSet(c.definitions)}

LEMMA ReferencesOf ==
  ASSUME NEW c \in Containers, NEW n \in DOMAIN c.definitions
  PROVE  c.definitions[n].references \in Seq(ServiceIds)
<1>1. c.definitions \in Seq(Definitions \cup Made)
  BY ContainerFacts
<1>2. c.definitions[n] \in Definitions \cup Made
  BY <1>1
<1>3. <<>> \in Seq(ServiceIds)
  OBVIOUS
<1> QED
  BY <1>2, <1>3, DefinitionFacts, MadeFacts

LEMMA ReferencedSteps ==
  ASSUME NEW c \in Containers, NEW t
  PROVE  \E f : /\ f[0] = <<>>
                /\ \A n \in 1..Len(c.definitions) :
                      f[n] = f[n - 1] \o Naming(c.definitions[n].references, t)
                /\ FindReferencedServiceIds(c, t) = f[Len(c.definitions)]
<1> DEFINE S == Seq(ServiceIds)
           N == Len(c.definitions)
           Step(n, s) == s \o Naming(c.definitions[n].references, t)
           step == [n \in 1..N |-> [s \in S |-> Step(n, s)]]
           Body(f) == [n \in 0..N |->
                IF n = 0 THEN <<>> ELSE f[n - 1] \o Naming(c.definitions[n].references, t)]
           F == CHOOSE f : f = Body(f)
<1>1. N \in Nat /\ DOMAIN c.definitions = 1..N
  <2>1. c.definitions \in Seq(Definitions \cup Made)
    BY ContainerFacts
  <2> QED
    BY <2>1
<1>2. step \in [1..N -> [S -> S]]
  <2>1. ASSUME NEW n \in 1..N, NEW s \in S PROVE Step(n, s) \in S
    <3>1. c.definitions[n].references \in S
      BY <1>1, ReferencesOf
    <3>2. Naming(c.definitions[n].references, t) \in S
      BY <3>1, NamingFacts
    <3> QED
      BY <3>2
  <2> HIDE DEF Step, S, N
  <2> QED
    BY <2>1
<1>3. PICK g \in [0..N -> S] : Computes(g, <<>>, N, step)
  <2>1. <<>> \in S
    OBVIOUS
  <2> HIDE DEF step, N, S
  <2> QED
    BY <1>1, <1>2, <2>1, Recursion
<1>4. \A n \in 1..N : g[n] = Step(n, g[n - 1])
  <2>1. \A n \in 1..N : n - 1 \in 0..N
    BY <1>1
  <2>2. \A n \in 1..N : g[n] = step[n][g[n - 1]] /\ g[n - 1] \in S
    BY <1>3, <2>1 DEF Computes
  <2> HIDE DEF S, N, Step
  <2> QED
    BY <2>2
<1>5. g = Body(g)
  <2>1. g[0] = <<>>
    BY <1>3 DEF Computes
  <2>2. \A n \in 0..N : n = 0 \/ n \in 1..N
    BY <1>1
  <2>3. \A n \in 0..N : g[n] = Body(g)[n]
    BY <1>4, <2>1, <2>2
  <2> QED
    BY <1>3, <2>3
<1>6. F = Body(F)
  BY <1>5
<1>7. FindReferencedServiceIds(c, t) = F[N]
  BY DEF FindReferencedServiceIds
<1>8. F[0] = <<>> /\ \A n \in 1..N : F[n] = Step(n, F[n - 1])
  <2> HIDE DEF F
  <2>1. F[0] = <<>>
    BY <1>1, <1>6
  <2>2. \A n \in 1..N : n # 0 /\ n \in 0..N
    BY <1>1
  <2> QED
    BY <1>6, <2>1, <2>2
<1> HIDE DEF F
<1> QED
  BY <1>7, <1>8

LEMMA ReferencedFacts ==
  ASSUME NEW c \in Containers, NEW t
  PROVE  /\ FindReferencedServiceIds(c, t) \in Seq(ServiceIds)
         /\ ToSet(FindReferencedServiceIds(c, t)) = {r \in ReferencedIds(c) : IdNamesService(r, t)}
<1> DEFINE N == Len(c.definitions)
           Of(n) == ToSet(Naming(c.definitions[n].references, t))
<1>0. c.definitions \in Seq(Definitions \cup Made) /\ N \in Nat /\ DOMAIN c.definitions = 1..N
  <2>1. c.definitions \in Seq(Definitions \cup Made)
    BY ContainerFacts
  <2> QED
    BY <2>1
<1>1. PICK f : /\ f[0] = <<>>
               /\ \A n \in 1..N : f[n] = f[n - 1] \o Naming(c.definitions[n].references, t)
               /\ FindReferencedServiceIds(c, t) = f[N]
  BY ReferencedSteps
<1>2. ASSUME NEW n \in 1..N
      PROVE  /\ Naming(c.definitions[n].references, t) \in Seq(ServiceIds)
             /\ Of(n) = {r \in ToSet(c.definitions[n].references) : IdNamesService(r, t)}
  <2>1. c.definitions[n].references \in Seq(ServiceIds)
    BY <1>0, ReferencesOf
  <2> QED
    BY <2>1, NamingFacts
<1> DEFINE Found(n) == UNION {Of(m) : m \in 1..n}
           T == {n \in 0..N : f[n] \in Seq(ServiceIds) /\ ToSet(f[n]) = Found(n)}
<1> HIDE DEF Of
<1>3. 0 \in T
  <2>1. Found(0) = {} /\ <<>> \in Seq(ServiceIds) /\ ToSet(<<>>) = {} /\ 0 \in 0..N
    BY <1>0 DEF ToSet
  <2> QED
    BY <1>1, <2>1
<1>4. ASSUME NEW n \in Nat, n < N, n \in T PROVE n + 1 \in T
  <2>1. n + 1 \in 1..N /\ (n + 1) - 1 = n /\ n + 1 \in 0..N
    BY <1>0, <1>4
  <2>2. f[n] \in Seq(ServiceIds) /\ ToSet(f[n]) = Found(n)
    BY <1>4
  <2>3. f[n + 1] = f[n] \o Naming(c.definitions[n + 1].references, t)
    BY <1>1, <2>1
  <2>4. Naming(c.definitions[n + 1].references, t) \in Seq(ServiceIds)
    BY <1>2, <2>1
  <2>5. \A k : k \in 1..(n + 1) <=> k \in 1..n \/ k = n + 1
    BY <1>4
  <2>6. Found(n + 1) = Found(n) \cup Of(n + 1)
    BY <2>5
  <2>7. f[n + 1] \in Seq(ServiceIds) /\ ToSet(f[n + 1]) = ToSet(f[n]) \cup Of(n + 1)
    BY <2>2, <2>3, <2>4, ConcatSet DEF Of
  <2> HIDE DEF Found
  <2> QED
    BY <2>1, <2>2, <2>6, <2>7
<1>5. 0..N \subseteq T
  <2> HIDE DEF T, N
  <2> QED
    BY <1>0, <1>3, <1>4, UpTo
<1>6. f[N] \in Seq(ServiceIds) /\ ToSet(f[N]) = Found(N)
  <2>1. N \in 0..N
    BY <1>0
  <2> QED
    BY <1>5, <2>1
<1>7. Found(N) = {r \in ReferencedIds(c) : IdNamesService(r, t)}
  <2>1. ASSUME NEW r \in Found(N) PROVE r \in ReferencedIds(c) /\ IdNamesService(r, t)
    <3>1. PICK n \in 1..N : r \in Of(n)
      OBVIOUS
    <3>2. r \in ToSet(c.definitions[n].references) /\ IdNamesService(r, t)
      BY <1>2, <3>1
    <3>3. c.definitions[n] \in ToSet(c.definitions)
      BY <1>0, ToSetFacts
    <3> QED
      BY <3>2, <3>3 DEF ReferencedIds
  <2>2. ASSUME NEW r \in ReferencedIds(c), IdNamesService(r, t) PROVE r \in Found(N)
    <3>1. PICK d \in ToSet(c.definitions) : r \in ToSet(d.references)
      BY DEF ReferencedIds
    <3>2. PICK n \in DOMAIN c.definitions : c.definitions[n] = d
      BY <1>0, ToSetFacts
    <3>3. r \in Of(n) /\ n \in 1..N
      BY <1>0, <1>2, <2>2, <3>1, <3>2
    <3> QED
      BY <3>3
  <2> HIDE DEF Found
  <2> QED
    BY <2>1, <2>2
<1> HIDE DEF Found
<1> QED
  BY <1>1, <1>6, <1>7

\* The ids that an override of the token redirects.
LEMMA KnownFacts ==
  ASSUME NEW c \in Containers, NEW t
  PROVE  /\ KnownTokenIds(c, t) \in Seq(ServiceIds)
         /\ \A id \in ToSet(KnownTokenIds(c, t)) : IdNamesService(id, t)
         /\ FindRegisteredServiceId(c, t) # None =>
               FindRegisteredServiceId(c, t) \in ToSet(KnownTokenIds(c, t))
         /\ \A r \in ReferencedIds(c) : IdNamesService(r, t) => r \in ToSet(KnownTokenIds(c, t))
<1> DEFINE Known(id) == IF id = None THEN <<>> ELSE <<id>>
<1>1. PICK r : r = FindRegisteredServiceId(c, t)
  OBVIOUS
<1>2. PICK a : a = FindAliasServiceId(c, t)
  OBVIOUS
<1>3. r # None => r \in ServiceIds /\ IdNamesService(r, t)
  <2>1. ASSUME r # None PROVE r \in ServiceIds /\ IdNamesService(r, t)
    <3>1. PICK d \in ToSet(c.definitions) : IdNamesService(d.id, t) /\ r = d.id
      BY <1>1, <2>1, RegisteredFacts
    <3>2. d \in Definitions
      BY <3>1, DefinitionOfContainer DEF IdNamesService
    <3> QED
      BY <3>1, <3>2, DefinitionFacts
  <2> QED
    BY <2>1
<1>4. a # None => a \in ServiceIds /\ IdNamesService(a, t)
  <2>1. ASSUME a # None PROVE a \in ServiceIds /\ IdNamesService(a, t)
    <3>1. PICK e \in ToSet(c.aliases) : IdNamesService(e.id, t) /\ a = e.id
      BY <1>2, <2>1, AliasFacts
    <3> QED
      BY <3>1, AliasOfContainer DEF IdNamesService
  <2> QED
    BY <2>1
<1>5. ASSUME NEW id, id # None => id \in ServiceIds /\ IdNamesService(id, t)
      PROVE  /\ Known(id) \in Seq(ServiceIds)
             /\ ToSet(Known(id)) = {id} \ {None}
             /\ \A x \in ToSet(Known(id)) : IdNamesService(x, t)
  <2>1. CASE id = None
    <3>1. Known(id) = <<>> /\ <<>> \in Seq(ServiceIds) /\ ToSet(<<>>) = {}
      BY <2>1 DEF ToSet
    <3> QED
      BY <2>1, <3>1
  <2>2. CASE id # None
    <3>1. Known(id) = <<id>> /\ <<id>> \in Seq(ServiceIds) /\ ToSet(<<id>>) = {id}
      BY <1>5, <2>2 DEF ToSet
    <3> QED
      BY <1>5, <2>2, <3>1
  <2> QED
    BY <2>1, <2>2
<1>6. KnownTokenIds(c, t) = Known(r) \o Known(a) \o FindReferencedServiceIds(c, t)
  BY <1>1, <1>2 DEF KnownTokenIds
<1>7. PICK f : f = FindReferencedServiceIds(c, t)
  OBVIOUS
<1>8. f \in Seq(ServiceIds) /\ ToSet(f) = {x \in ReferencedIds(c) : IdNamesService(x, t)}
  BY <1>7, ReferencedFacts
<1>9. PICK kr : kr = Known(r)
  OBVIOUS
<1>10. PICK ka : ka = Known(a)
  OBVIOUS
<1>11. /\ kr \in Seq(ServiceIds) /\ ToSet(kr) = {r} \ {None}
       /\ \A x \in ToSet(kr) : IdNamesService(x, t)
  BY <1>3, <1>5, <1>9
<1>12. /\ ka \in Seq(ServiceIds)
       /\ \A x \in ToSet(ka) : IdNamesService(x, t)
  BY <1>4, <1>5, <1>10
<1>13. KnownTokenIds(c, t) = (kr \o ka) \o f
  BY <1>6, <1>7, <1>9, <1>10
<1> HIDE DEF Known
<1>14. PICK ra : ra = kr \o ka
  OBVIOUS
<1>15. ra \in Seq(ServiceIds) /\ ToSet(ra) = ToSet(kr) \cup ToSet(ka)
  BY <1>11, <1>12, <1>14, ConcatSet
<1>16. ra \o f \in Seq(ServiceIds) /\ ToSet(ra \o f) = ToSet(ra) \cup ToSet(f)
  BY <1>8, <1>15, ConcatSet
<1>17. KnownTokenIds(c, t) = ra \o f
  BY <1>13, <1>14
<1> QED
  BY <1>1, <1>8, <1>11, <1>12, <1>15, <1>16, <1>17

(***************************************************************************)
(* Steps of compile().                                                       *)
(***************************************************************************)
\* The services of a are in b, in the same places, and what else b defines is
\* of overrides.
SameServices(a, b) ==
    /\ DOMAIN a.definitions \subseteq DOMAIN b.definitions
    /\ \A n \in DOMAIN a.definitions : b.definitions[n].id = a.definitions[n].id
    /\ \A n \in DOMAIN a.definitions :
          a.definitions[n].id.dir \notin OverridePrefixes => b.definitions[n] = a.definitions[n]
    /\ \A n \in DOMAIN b.definitions \ DOMAIN a.definitions :
          b.definitions[n].id.dir \in OverridePrefixes

LEMMA SameRefl ==
  ASSUME NEW a
  PROVE  SameServices(a, a)
  BY DEF SameServices

LEMMA SameTrans ==
  ASSUME NEW a, NEW b, NEW c, SameServices(a, b), SameServices(b, c)
  PROVE  SameServices(a, c)
<1>1. DOMAIN a.definitions \subseteq DOMAIN c.definitions
  BY DEF SameServices
<1>2. \A n \in DOMAIN a.definitions :
         /\ n \in DOMAIN b.definitions
         /\ b.definitions[n].id = a.definitions[n].id
         /\ c.definitions[n].id = b.definitions[n].id
  BY DEF SameServices
<1>3. \A n \in DOMAIN a.definitions :
         a.definitions[n].id.dir \notin OverridePrefixes => c.definitions[n] = a.definitions[n]
  BY <1>2 DEF SameServices
<1>4. ASSUME NEW n \in DOMAIN c.definitions \ DOMAIN a.definitions
      PROVE  c.definitions[n].id.dir \in OverridePrefixes
  <2>1. CASE n \in DOMAIN b.definitions
    <3>1. b.definitions[n].id.dir \in OverridePrefixes
      BY <2>1 DEF SameServices
    <3>2. c.definitions[n].id = b.definitions[n].id
      BY <2>1 DEF SameServices
    <3> QED
      BY <3>1, <3>2
  <2>2. CASE n \notin DOMAIN b.definitions
    BY <2>2 DEF SameServices
  <2> QED
    BY <2>1, <2>2
<1> QED
  BY <1>1, <1>2, <1>3, <1>4 DEF SameServices

LEMMA DefinitionAt ==
  ASSUME NEW c \in Containers, NEW n \in DOMAIN c.definitions
  PROVE  c.definitions[n] \in ToSet(c.definitions)
<1>1. c.definitions \in Seq(Definitions \cup Made)
  BY ContainerFacts
<1> QED
  BY <1>1, ToSetFacts

LEMMA PlaceOf ==
  ASSUME NEW c \in Containers, NEW d \in ToSet(c.definitions)
  PROVE  \E n \in DOMAIN c.definitions : c.definitions[n] = d
<1>1. c.definitions \in Seq(Definitions \cup Made)
  BY ContainerFacts
<1> QED
  BY <1>1, ToSetFacts

\* The definitions that are not of overrides.
Own(c) == {d \in ToSet(c.definitions) : d.id.dir \notin OverridePrefixes}

LEMMA SameOwn ==
  ASSUME NEW a \in Containers, NEW b \in Containers, SameServices(a, b)
  PROVE  Own(a) = Own(b)
<1>1. ASSUME NEW d \in Own(a) PROVE d \in Own(b)
  <2>1. PICK n \in DOMAIN a.definitions : a.definitions[n] = d
    BY PlaceOf DEF Own
  <2>2. d.id.dir \notin OverridePrefixes
    BY DEF Own
  <2>3. n \in DOMAIN b.definitions /\ b.definitions[n] = d
    BY <2>1, <2>2 DEF SameServices
  <2> QED
    BY <2>2, <2>3, DefinitionAt DEF Own
<1>2. ASSUME NEW d \in Own(b) PROVE d \in Own(a)
  <2>1. PICK n \in DOMAIN b.definitions : b.definitions[n] = d
    BY PlaceOf DEF Own
  <2>2. d.id.dir \notin OverridePrefixes
    BY DEF Own
  <2>3. n \in DOMAIN a.definitions
    BY <2>1, <2>2 DEF SameServices
  <2>4. b.definitions[n].id = a.definitions[n].id
    BY <2>3 DEF SameServices
  <2>5. a.definitions[n] = d
    BY <2>1, <2>2, <2>3, <2>4 DEF SameServices
  <2> QED
    BY <2>2, <2>3, <2>5, DefinitionAt DEF Own
<1> QED
  BY <1>1, <1>2

LEMMA EntryOfOwn ==
  ASSUME NEW c \in Containers, NEW id, id.dir \notin OverridePrefixes
  PROVE  /\ \A d \in Own(c) : d.id = id => Entry(c.definitions, id) = d
         /\ (\A d \in Own(c) : d.id # id) => Entry(c.definitions, id) = None
<1>1. Unique(c.definitions)
  BY ContainerFacts
<1>2. ASSUME NEW d \in Own(c), d.id = id PROVE Entry(c.definitions, id) = d
  <2>1. d \in ToSet(c.definitions)
    BY DEF Own
  <2>2. Entry(c.definitions, d.id) = d
    BY <1>1, <2>1, EntryFound
  <2> QED
    BY <1>2, <2>2
<1>3. ASSUME \A d \in Own(c) : d.id # id PROVE Entry(c.definitions, id) = None
  <2>1. \A d \in ToSet(c.definitions) : d.id # id
    BY <1>3 DEF Own
  <2> QED
    BY <2>1, EntryMissing
<1> QED
  BY <1>2, <1>3

LEMMA SameEntry ==
  ASSUME NEW a \in Containers, NEW b \in Containers, SameServices(a, b),
         NEW id, id.dir \notin OverridePrefixes
  PROVE  Entry(a.definitions, id) = Entry(b.definitions, id)
<1>1. Own(a) = Own(b)
  BY SameOwn
<1>2. CASE \E d \in Own(a) : d.id = id
  <2>1. PICK d \in Own(a) : d.id = id
    BY <1>2
  <2>2. Entry(a.definitions, id) = d
    BY <2>1, EntryOfOwn
  <2>3. Entry(b.definitions, id) = d
    BY <1>1, <2>1, EntryOfOwn
  <2> QED
    BY <2>2, <2>3
<1>3. CASE ~\E d \in Own(a) : d.id = id
  <2>1. Entry(a.definitions, id) = None
    BY <1>3, EntryOfOwn
  <2>2. Entry(b.definitions, id) = None
    BY <1>1, <1>3, EntryOfOwn
  <2> QED
    BY <2>1, <2>2
<1> QED
  BY <1>2, <1>3

LEMMA ReferencedByOwn ==
  ASSUME NEW c \in Containers
  PROVE  ReferencedIds(c) = UNION {ToSet(d.references) : d \in Own(c)}
<1>1. \A d \in ToSet(c.definitions) : d \in Own(c) \/ ToSet(d.references) = {}
  <2>1. ASSUME NEW d \in ToSet(c.definitions), d \notin Own(c) PROVE ToSet(d.references) = {}
    <3>1. d \in Made
      BY <2>1, DefinitionOfContainer DEF Own
    <3>2. d.references = <<>>
      BY <3>1, MadeFacts
    <3> QED
      BY <3>2 DEF ToSet
  <2> QED
    BY <2>1
<1>2. Own(c) \subseteq ToSet(c.definitions)
  BY DEF Own
<1> QED
  BY <1>1, <1>2 DEF ReferencedIds

LEMMA SameReferenced ==
  ASSUME NEW a \in Containers, NEW b \in Containers, SameServices(a, b)
  PROVE  ReferencedIds(a) = ReferencedIds(b)
  BY SameOwn, ReferencedByOwn

LEMMA ChildrenFacts ==
  ASSUME NEW c \in Containers, NEW id, id # None, NEW n \in Children(c.definitions, id)
  PROVE  /\ n \in DOMAIN c.definitions
         /\ c.definitions[n] \in Own(c) /\ c.definitions[n] \in Definitions
         /\ c.definitions[n].abstract = FALSE /\ c.definitions[n].parent = id
<1>1. n \in DOMAIN c.definitions /\ ~c.definitions[n].abstract /\ c.definitions[n].parent = id
  BY DEF Children
<1>2. PICK d \in ToSet(c.definitions) : d = c.definitions[n]
  BY <1>1, DefinitionAt
<1>3. d \notin Made
  BY <1>1, <1>2, MadeFacts
<1>4. d \in Definitions
  BY <1>3, DefinitionOfContainer
<1>5. d.id.dir \notin OverridePrefixes /\ d.abstract \in BOOLEAN
  BY <1>4, DefinitionFacts
<1> QED
  BY <1>1, <1>2, <1>4, <1>5 DEF Own

LEMMA SameChildren ==
  ASSUME NEW a \in Containers, NEW b \in Containers, SameServices(a, b), NEW id, id # None
  PROVE  /\ Children(a.definitions, id) = Children(b.definitions, id)
         /\ \A n \in Children(a.definitions, id) : a.definitions[n] = b.definitions[n]
<1>1. ASSUME NEW n \in Children(a.definitions, id)
      PROVE  n \in Children(b.definitions, id) /\ a.definitions[n] = b.definitions[n]
  <2>1. n \in DOMAIN a.definitions /\ a.definitions[n].id.dir \notin OverridePrefixes
    BY ChildrenFacts DEF Own
  <2>2. n \in DOMAIN b.definitions /\ a.definitions[n] = b.definitions[n]
    BY <2>1 DEF SameServices
  <2> QED
    BY <2>2 DEF Children
<1>2. ASSUME NEW n \in Children(b.definitions, id)
      PROVE  n \in Children(a.definitions, id)
  <2>1. n \in DOMAIN b.definitions /\ b.definitions[n].id.dir \notin OverridePrefixes
    BY ChildrenFacts DEF Own
  <2>2. n \in DOMAIN a.definitions
    BY <2>1 DEF SameServices
  <2>3. a.definitions[n] = b.definitions[n]
    BY <2>1, <2>2 DEF SameServices
  <2> QED
    BY <2>2, <2>3 DEF Children
<1> QED
  BY <1>1, <1>2

LEMMA ChildrenRange ==
  ASSUME NEW c \in Containers, NEW id
  PROVE  /\ Len(c.definitions) \in Nat
         /\ Children(c.definitions, id) \subseteq 1..Len(c.definitions)
<1>1. c.definitions \in Seq(Definitions \cup Made)
  BY ContainerFacts
<1> QED
  BY <1>1 DEF Children

LEMMA SameDeclared ==
  ASSUME NEW a \in Containers, NEW b \in Containers, SameServices(a, b), NEW t \in Tokens
  PROVE  DeclaredService(a.definitions, t) = DeclaredService(b.definitions, t)
<1>1. IdOf(t) # None /\ IdOf(t).dir \notin OverridePrefixes
  BY ServiceIdFacts
<1>2. Children(a.definitions, IdOf(t)) = Children(b.definitions, IdOf(t))
  BY <1>1, SameChildren
<1>3. CASE t.literal
  BY <1>3 DEF DeclaredService
<1>4. CASE ~t.literal /\ Children(a.definitions, IdOf(t)) # {}
  <2>1. PICK m : m = Max(Children(a.definitions, IdOf(t)))
    OBVIOUS
  <2>2. m \in Children(a.definitions, IdOf(t))
    BY <1>4, <2>1, ChildrenRange, Greatest
  <2>3. a.definitions[m] = b.definitions[m]
    BY <1>1, <2>2, SameChildren
  <2>4. DeclaredService(a.definitions, t) = a.definitions[m].delivers
    BY <1>4, <2>1 DEF DeclaredService
  <2>5. DeclaredService(b.definitions, t) = b.definitions[m].delivers
    BY <1>2, <1>4, <2>1 DEF DeclaredService
  <2> QED
    BY <2>3, <2>4, <2>5
<1>5. CASE ~t.literal /\ Children(a.definitions, IdOf(t)) = {}
  <2>1. Own(a) = Own(b)
    BY SameOwn
  <2>2. (\E d \in ToSet(a.definitions) : d.id = IdOf(t) /\ ~d.abstract)
           <=> (\E d \in ToSet(b.definitions) : d.id = IdOf(t) /\ ~d.abstract)
    BY <1>1, <2>1 DEF Own
  <2> QED
    BY <1>2, <1>5, <2>2 DEF DeclaredService
<1> QED
  BY <1>3, <1>4, <1>5

\* Only these ids are defined anew.
Defines(c, e, X) ==
    /\ e \in Containers
    /\ SameServices(c, e)
    /\ e.aliases = c.aliases /\ e.overrideTokenIds = c.overrideTokenIds /\ e.threw = c.threw
    /\ \A id : id \notin X => Entry(e.definitions, id) = Entry(c.definitions, id)

LEMMA DefinesNothing ==
  ASSUME NEW c \in Containers
  PROVE  Defines(c, c, {})
  BY SameRefl DEF Defines

LEMMA RegisterFacts ==
  ASSUME NEW c \in Containers, NEW p \in OverridePrefixes, NEW t \in Tokens, NEW v \in Deliverable
  PROVE  LET id == OverrideId(p, t)
             e == Register(c, id, v)
         IN /\ Defines(c, e, {id})
            /\ Entry(e.definitions, id) = Service(id, v)
<1>1. PICK s : s = Service(OverrideId(p, t), v)
  OBVIOUS
<1>2. s \in Made /\ s.id = OverrideId(p, t)
  <2>1. s.id = OverrideId(p, t)
    BY <1>1 DEF Service
  <2>2. v \in Tokens \cup Values \cup {None}
    BY DEF Deliverable
  <2>3. s \in Made
    BY <1>1, <2>2 DEF Made
  <2> QED
    BY <2>1, <2>3
<1>3. PICK e : e = Register(c, OverrideId(p, t), v)
  OBVIOUS
<1>4. PICK defs : defs = Put(c.definitions, s)
  OBVIOUS
<1>5. e = [c EXCEPT !.definitions = defs]
  BY <1>1, <1>3, <1>4 DEF Register
<1>6. c.definitions \in Seq(Definitions \cup Made) /\ Unique(c.definitions)
  BY ContainerFacts
<1>7. s \in Definitions \cup Made
  BY <1>2
<1>8. defs \in Seq(Definitions \cup Made)
  BY ONLY <1>4, <1>6, <1>7, PutFacts
<1>9. Unique(defs)
  BY ONLY <1>4, <1>6, <1>7, PutUnique
<1>10. e \in Containers /\ e.definitions = defs
  BY <1>5, <1>8, <1>9 DEF Containers
<1>11. \A id : Entry(defs, id) = IF id = s.id THEN s ELSE Entry(c.definitions, id)
  BY ONLY <1>4, <1>6, <1>7, PutEntry
<1>12. s.id.dir \in OverridePrefixes
  BY <1>2, MadeFacts
<1>13. SameServices(c, e)
  <2>0. PICK S : S = Definitions \cup Made
    OBVIOUS
  <2>1. PICK cd : cd = c.definitions
    OBVIOUS
  <2>2. cd \in Seq(S) /\ s \in S /\ defs = Put(cd, s)
    BY <1>4, <1>6, <1>7, <2>0, <2>1
  <2>3. DOMAIN cd \subseteq DOMAIN defs
    BY ONLY <2>2, PutFacts
  <2>4. \A n \in DOMAIN cd : defs[n] = IF cd[n].id = s.id THEN s ELSE cd[n]
    BY ONLY <2>2, PutFacts
  <2>5. \A n \in DOMAIN defs \ DOMAIN cd : defs[n] = s
    BY ONLY <2>2, PutFacts
  <2> QED
    BY <1>10, <1>12, <2>1, <2>3, <2>4, <2>5 DEF SameServices
<1>14. e.aliases = c.aliases /\ e.overrideTokenIds = c.overrideTokenIds /\ e.threw = c.threw
  BY <1>5 DEF Containers
<1>15. Defines(c, e, {s.id})
  BY <1>10, <1>11, <1>13, <1>14 DEF Defines
<1>16. Entry(e.definitions, s.id) = s
  BY <1>10, <1>11
<1> QED
  BY <1>1, <1>2, <1>3, <1>15, <1>16

LEMMA DefinesTrans ==
  ASSUME NEW c, NEW d, NEW e, NEW X, NEW Y, Defines(c, d, X), Defines(d, e, Y)
  PROVE  Defines(c, e, X \cup Y)
<1>1. SameServices(c, e)
  BY SameTrans DEF Defines
<1> QED
  BY <1>1 DEF Defines

\* The ids become aliases of the target.
Redirected(c, e, ids, target) ==
    /\ e \in Containers
    /\ e.definitions = c.definitions /\ e.overrideTokenIds = c.overrideTokenIds
    /\ e.threw = c.threw
    /\ \A id \in ids : Entry(e.aliases, id) = [id |-> id, target |-> target]
    /\ \A id : id \notin ids => Entry(e.aliases, id) = Entry(c.aliases, id)

LEMMA SetAliasFacts ==
  ASSUME NEW c \in Containers, NEW id \in KeyIds, NEW target \in TargetIds
  PROVE  Redirected(c, SetAlias(c, id, target), {id}, target)
<1>1. PICK a : a = [id |-> id, target |-> target]
  OBVIOUS
<1>2. a \in AliasEntries /\ a.id = id
  BY <1>1 DEF AliasEntries
<1>3. PICK e : e = SetAlias(c, id, target)
  OBVIOUS
<1>4. PICK aliases : aliases = Put(c.aliases, a)
  OBVIOUS
<1>5. e = [c EXCEPT !.aliases = aliases]
  BY <1>1, <1>3, <1>4 DEF SetAlias
<1>6. c.aliases \in Seq(AliasEntries) /\ Unique(c.aliases)
  BY ContainerFacts
<1>7. aliases \in Seq(AliasEntries)
  BY <1>2, <1>4, <1>6, PutFacts
<1>8. Unique(aliases)
  BY <1>2, <1>4, <1>6, PutUnique
<1>9. e \in Containers /\ e.aliases = aliases
  BY <1>5, <1>7, <1>8 DEF Containers
<1>10. \A x : Entry(aliases, x) = IF x = a.id THEN a ELSE Entry(c.aliases, x)
  BY <1>2, <1>4, <1>6, PutEntry
<1>11. e.definitions = c.definitions /\ e.overrideTokenIds = c.overrideTokenIds /\ e.threw = c.threw
  BY <1>5 DEF Containers
<1>12. Redirected(c, e, {id}, target)
  BY <1>1, <1>2, <1>9, <1>10, <1>11 DEF Redirected
<1> QED
  BY <1>3, <1>12

LEMMA RedirectedTrans ==
  ASSUME NEW c, NEW d, NEW e, NEW I, NEW J, NEW target,
         Redirected(c, d, I, target), Redirected(d, e, J, target)
  PROVE  Redirected(c, e, I \cup J, target)
<1>1. ASSUME NEW id \in I \cup J PROVE Entry(e.aliases, id) = [id |-> id, target |-> target]
  BY DEF Redirected
<1>2. ASSUME NEW id, id \notin I \cup J PROVE Entry(e.aliases, id) = Entry(c.aliases, id)
  BY <1>2 DEF Redirected
<1> QED
  BY <1>1, <1>2 DEF Redirected

LEMMA SetAliasesSteps ==
  ASSUME NEW c \in Containers, NEW ids \in Seq(KeyIds), NEW target \in TargetIds
  PROVE  \E f : /\ f[0] = c
                /\ \A n \in 1..Len(ids) : f[n] = SetAlias(f[n - 1], ids[n], target)
                /\ SetAliases(c, ids, target) = f[Len(ids)]
<1> DEFINE S == Containers
           N == Len(ids)
           Step(n, s) == SetAlias(s, ids[n], target)
           step == [n \in 1..N |-> [s \in S |-> Step(n, s)]]
           Body(f) == [n \in 0..N |->
                IF n = 0 THEN c ELSE SetAlias(f[n - 1], ids[n], target)]
           F == CHOOSE f : f = Body(f)
<1>1. N \in Nat
  OBVIOUS
<1>2. step \in [1..N -> [S -> S]]
  <2>1. ASSUME NEW n \in 1..N, NEW s \in S PROVE Step(n, s) \in S
    <3>1. ids[n] \in KeyIds
      OBVIOUS
    <3> QED
      BY <3>1, SetAliasFacts DEF Redirected
  <2> HIDE DEF Step, S, N
  <2> QED
    BY <2>1
<1>3. PICK g \in [0..N -> S] : Computes(g, c, N, step)
  <2>1. c \in S
    OBVIOUS
  <2> HIDE DEF step, N, S
  <2> QED
    BY <1>1, <1>2, <2>1, Recursion
<1>4. \A n \in 1..N : g[n] = Step(n, g[n - 1])
  <2>1. \A n \in 1..N : n - 1 \in 0..N
    BY <1>1
  <2>2. \A n \in 1..N : g[n] = step[n][g[n - 1]] /\ g[n - 1] \in S
    BY <1>3, <2>1 DEF Computes
  <2> HIDE DEF S, N, Step
  <2> QED
    BY <2>2
<1>5. g = Body(g)
  <2>1. g[0] = c
    BY <1>3 DEF Computes
  <2>2. \A n \in 0..N : n = 0 \/ n \in 1..N
    BY <1>1
  <2>3. \A n \in 0..N : g[n] = Body(g)[n]
    BY <1>4, <2>1, <2>2
  <2> QED
    BY <1>3, <2>3
<1>6. F = Body(F)
  BY <1>5
<1>7. SetAliases(c, ids, target) = F[N]
  BY DEF SetAliases
<1>8. F[0] = c /\ \A n \in 1..N : F[n] = Step(n, F[n - 1])
  <2> HIDE DEF F
  <2>1. F[0] = c
    BY <1>1, <1>6
  <2>2. \A n \in 1..N : n # 0 /\ n \in 0..N
    BY <1>1
  <2> QED
    BY <1>6, <2>1, <2>2
<1> HIDE DEF F
<1> QED
  BY <1>7, <1>8

LEMMA SetAliasesFacts ==
  ASSUME NEW c \in Containers, NEW ids \in Seq(KeyIds), NEW target \in TargetIds
  PROVE  Redirected(c, SetAliases(c, ids, target), ToSet(ids), target)
<1> DEFINE N == Len(ids)
           Of(n) == {ids[m] : m \in 1..n}
<1>1. PICK f : /\ f[0] = c
               /\ \A n \in 1..N : f[n] = SetAlias(f[n - 1], ids[n], target)
               /\ SetAliases(c, ids, target) = f[N]
  BY SetAliasesSteps
<1> DEFINE T == {n \in 0..N : Redirected(c, f[n], Of(n), target)}
<1>2. N \in Nat /\ 0 \in 0..N /\ N \in 0..N
  OBVIOUS
<1>3. 0 \in T
  <2>1. Of(0) = {}
    OBVIOUS
  <2>2. Redirected(c, c, {}, target)
    BY DEF Redirected
  <2> QED
    BY <1>1, <1>2, <2>1, <2>2
<1>4. ASSUME NEW n \in Nat, n < N, n \in T PROVE n + 1 \in T
  <2>1. n + 1 \in 1..N /\ (n + 1) - 1 = n /\ n + 1 \in 0..N
    BY <1>2, <1>4
  <2>2. Redirected(c, f[n], Of(n), target)
    BY <1>4
  <2>3. PICK d : d = f[n]
    OBVIOUS
  <2>4. d \in Containers
    BY <2>2, <2>3 DEF Redirected
  <2>5. ids[n + 1] \in KeyIds
    BY <2>1
  <2>6. Redirected(d, SetAlias(d, ids[n + 1], target), {ids[n + 1]}, target)
    BY <2>4, <2>5, SetAliasFacts
  <2>7. f[n + 1] = SetAlias(d, ids[n + 1], target)
    BY <1>1, <2>1, <2>3
  <2>8. Redirected(d, f[n + 1], {ids[n + 1]}, target)
    BY <2>6, <2>7
  <2>9. Of(n + 1) = Of(n) \cup {ids[n + 1]}
    <3>1. \A k : k \in 1..(n + 1) <=> k \in 1..n \/ k = n + 1
      BY <1>4
    <3> QED
      BY <3>1
  <2>10. Redirected(c, d, Of(n), target)
    BY <2>2, <2>3
  <2> HIDE DEF Of
  <2>11. Redirected(c, f[n + 1], Of(n) \cup {ids[n + 1]}, target)
    BY <2>8, <2>10, RedirectedTrans
  <2> QED
    BY <2>1, <2>9, <2>11
<1>5. 0..N \subseteq T
  <2> HIDE DEF T, N
  <2> QED
    BY <1>2, <1>3, <1>4, UpTo
<1>6. Redirected(c, f[N], Of(N), target)
  BY <1>2, <1>5
<1>7. Of(N) = ToSet(ids)
  BY DEF ToSet
<1> QED
  BY <1>1, <1>6, <1>7

LEMMA OverridesFacts ==
  ASSUME NEW o \in Overrides
  PROVE  /\ o.token \in Tokens
         /\ \/ o.kind = "useClass" /\ o.use \in Classes
            \/ o.kind = "useFactory" /\ o.use \in Tokens
            \/ o.kind = "useValue" /\ o.use \in Values
  BY DEF Overrides

LEMMA OverrideFacts ==
  ASSUME NEW c \in Containers, NEW token \in Tokens, NEW ids \in Seq(KeyIds), ids # <<>>,
         NEW target \in TargetIds
  PROVE  LET e == Override(c, token, ids, target)
         IN /\ e \in Containers /\ e.definitions = c.definitions /\ e.threw = c.threw
            /\ \A id \in ToSet(ids) : Entry(e.aliases, id) = [id |-> id, target |-> target]
            /\ \A id : id \notin ToSet(ids) => Entry(e.aliases, id) = Entry(c.aliases, id)
            /\ DOMAIN e.overrideTokenIds = DOMAIN c.overrideTokenIds \cup {token}
            /\ e.overrideTokenIds[token] \in ToSet(ids)
            /\ \A t \in DOMAIN c.overrideTokenIds \ {token} :
                  e.overrideTokenIds[t] = c.overrideTokenIds[t]
<1>1. PICK s : s = SetAliases(c, ids, target)
  OBVIOUS
<1>2. Redirected(c, s, ToSet(ids), target)
  BY <1>1, SetAliasesFacts
<1>3. s \in Containers
  BY <1>2 DEF Redirected
<1>4. PICK f : f = [t \in DOMAIN s.overrideTokenIds \cup {token} |->
                      IF t = token THEN ids[1] ELSE s.overrideTokenIds[t]]
  OBVIOUS
<1>5. PICK e : e = Override(c, token, ids, target)
  OBVIOUS
<1>6. e = [s EXCEPT !.overrideTokenIds = f]
  BY <1>1, <1>4, <1>5 DEF Override
<1>7. ids[1] \in KeyIds /\ ids[1] \in ToSet(ids)
  <2>1. 1 \in DOMAIN ids
    OBVIOUS
  <2> QED
    BY <2>1, ToSetFacts
<1>8. f \in TokenIds
  <2>1. s.overrideTokenIds \in TokenIds
    BY <1>3, ContainerFacts
  <2>2. DOMAIN s.overrideTokenIds \subseteq Tokens
        /\ \A t \in DOMAIN s.overrideTokenIds : s.overrideTokenIds[t] \in KeyIds
    BY <2>1, TokenIdsFacts
  <2>3. PICK X : X = DOMAIN s.overrideTokenIds \cup {token}
    OBVIOUS
  <2>4. f \in [X -> KeyIds]
    BY <1>4, <1>7, <2>2, <2>3
  <2>5. X \in SUBSET Tokens
    BY <2>2, <2>3
  <2> QED
    BY <2>4, <2>5 DEF TokenIds
<1>9. e \in Containers /\ e.overrideTokenIds = f
  BY <1>3, <1>6, <1>8 DEF Containers
<1>10. e.definitions = s.definitions /\ e.aliases = s.aliases /\ e.threw = s.threw
  BY <1>3, <1>6 DEF Containers
<1>11. s.definitions = c.definitions /\ s.overrideTokenIds = c.overrideTokenIds /\ s.threw = c.threw
  BY <1>2 DEF Redirected
<1>12. \A id \in ToSet(ids) : Entry(e.aliases, id) = [id |-> id, target |-> target]
  BY <1>2, <1>10 DEF Redirected
<1>13. \A id : id \notin ToSet(ids) => Entry(e.aliases, id) = Entry(c.aliases, id)
  BY <1>2, <1>10 DEF Redirected
<1>14. /\ DOMAIN f = DOMAIN c.overrideTokenIds \cup {token}
       /\ f[token] = ids[1]
       /\ \A t \in DOMAIN c.overrideTokenIds \ {token} : f[t] = c.overrideTokenIds[t]
  BY <1>4, <1>11
<1> QED
  BY <1>5, <1>7, <1>9, <1>10, <1>11, <1>12, <1>13, <1>14

\* What e defines as g, for an override o of c, and what that delivers.
Replaces(c, e, o, g, v) ==
    \/ /\ o.kind = "useClass" /\ v = o.use
       /\ \/ \E x \in Own(c) : x.id = g /\ IdNamesService(g, o.use)
          \/ g = OverrideId("class", o.use) /\ Entry(e.definitions, g) = Service(g, v)
    \/ /\ o.kind = "useFactory" /\ v # None
       /\ g = OverrideId("factory", o.token) /\ Entry(e.definitions, g) = Service(g, v)
       /\ \E d : Defines(c, d, {OverrideId("token", o.token)}) /\ v = GetService(d, o.use)
    \/ /\ o.kind = "useValue" /\ v = o.use
       /\ g = OverrideId("value", o.token) /\ Entry(e.definitions, g) = Service(g, v)

\* The override o makes e of c: the ids lead to g, which delivers v.
Applied(c, e, o, ids, g, v) ==
    /\ e \in Containers /\ SameServices(c, e) /\ e.threw = c.threw
    /\ ids \subseteq KeyIds /\ g \in TargetIds
    /\ \A id \in ids : IdNamesService(id, o.token) \/ id = OverrideId("token", o.token)
    /\ FindRegisteredServiceId(c, o.token) # None => FindRegisteredServiceId(c, o.token) \in ids
    /\ \A r \in ReferencedIds(c) : IdNamesService(r, o.token) => r \in ids
    /\ \A id \in ids : Entry(e.aliases, id) = [id |-> id, target |-> g]
    /\ \A id : id \notin ids => Entry(e.aliases, id) = Entry(c.aliases, id)
    /\ DOMAIN e.overrideTokenIds = DOMAIN c.overrideTokenIds \cup {o.token}
    /\ e.overrideTokenIds[o.token] \in ids
    /\ \A t \in DOMAIN c.overrideTokenIds \ {o.token} :
          e.overrideTokenIds[t] = c.overrideTokenIds[t]
    /\ \A id : id \notin {OverrideId("token", o.token), g} =>
          Entry(e.definitions, id) = Entry(c.definitions, id)
    /\ Replaces(c, e, o, g, v)

Threw(c, e) ==
    /\ e \in Containers /\ SameServices(c, e) /\ e.threw = TRUE
    /\ e.aliases = c.aliases /\ e.overrideTokenIds = c.overrideTokenIds

\* The ids that an override redirects, and the container that it finds them in.
Prepared(c, d, token, ids) ==
    /\ Defines(c, d, {OverrideId("token", token)})
    /\ ids \in Seq(KeyIds) /\ ids # <<>>
    /\ \A id \in ToSet(ids) : IdNamesService(id, token) \/ id = OverrideId("token", token)
    /\ FindRegisteredServiceId(c, token) # None =>
          FindRegisteredServiceId(c, token) \in ToSet(ids)
    /\ \A r \in ReferencedIds(c) : IdNamesService(r, token) => r \in ToSet(ids)

LEMMA PreparedFacts ==
  ASSUME NEW c \in Containers, NEW token \in Tokens
  PROVE  LET known == KnownTokenIds(c, token)
             tokenId == OverrideId("token", token)
             ids == IF known = <<>> THEN <<tokenId>> ELSE known
             d == IF known = <<>> THEN Register(c, tokenId, None) ELSE c
         IN Prepared(c, d, token, ids)
<1>1. PICK known : known = KnownTokenIds(c, token)
  OBVIOUS
<1>2. /\ known \in Seq(ServiceIds)
      /\ \A id \in ToSet(known) : IdNamesService(id, token)
      /\ FindRegisteredServiceId(c, token) # None =>
            FindRegisteredServiceId(c, token) \in ToSet(known)
      /\ \A r \in ReferencedIds(c) : IdNamesService(r, token) => r \in ToSet(known)
  BY <1>1, KnownFacts
<1>3. PICK tokenId : tokenId = OverrideId("token", token)
  OBVIOUS
<1>4. CASE known = <<>>
  <2>1. tokenId \in KeyIds
    BY <1>3 DEF KeyIds
  <2>2. <<tokenId>> \in Seq(KeyIds) /\ <<tokenId>> # <<>> /\ ToSet(<<tokenId>>) = {tokenId}
    BY <2>1 DEF ToSet
  <2>3. ToSet(known) = {}
    BY <1>4 DEF ToSet
  <2>4. PICK d : d = Register(c, tokenId, None)
    OBVIOUS
  <2>5. Defines(c, d, {tokenId})
    <3>1. "token" \in OverridePrefixes /\ None \in Deliverable
      BY DEF OverridePrefixes, Deliverable
    <3> QED
      BY <1>3, <2>4, <3>1, RegisterFacts
  <2>6. Prepared(c, d, token, <<tokenId>>)
    BY <1>2, <1>3, <2>2, <2>3, <2>5 DEF Prepared
  <2> QED
    BY <1>1, <1>3, <1>4, <2>4, <2>6
<1>5. CASE known # <<>>
  <2>1. known \in Seq(KeyIds)
    BY <1>2 DEF KeyIds
  <2>2. Defines(c, c, {tokenId})
    BY DefinesNothing DEF Defines
  <2>3. Prepared(c, c, token, known)
    BY <1>2, <1>3, <1>5, <2>1, <2>2 DEF Prepared
  <2> QED
    BY <1>1, <1>3, <1>5, <2>3
<1> QED
  BY <1>4, <1>5

\* Redirecting the ids of a prepared container, with the replacement defined.
LEMMA RedirectFacts ==
  ASSUME NEW c \in Containers, NEW d, NEW f, NEW o \in Overrides, NEW ids, NEW g \in TargetIds, NEW v,
         Prepared(c, d, o.token, ids), Defines(d, f, {g}),
         NEW e, e = Override(f, o.token, ids, g), Replaces(c, e, o, g, v)
  PROVE  Applied(c, e, o, ToSet(ids), g, v)
<1>1. o.token \in Tokens
  BY OverridesFacts
<1>2. /\ Defines(c, d, {OverrideId("token", o.token)})
      /\ ids \in Seq(KeyIds) /\ ids # <<>>
  BY DEF Prepared
<1>3. Defines(c, f, {OverrideId("token", o.token)} \cup {g})
  BY <1>2, DefinesTrans
<1>4. f \in Containers
  BY <1>3 DEF Defines
<1>5. /\ e \in Containers /\ e.definitions = f.definitions /\ e.threw = f.threw
      /\ \A id \in ToSet(ids) : Entry(e.aliases, id) = [id |-> id, target |-> g]
      /\ \A id : id \notin ToSet(ids) => Entry(e.aliases, id) = Entry(f.aliases, id)
      /\ DOMAIN e.overrideTokenIds = DOMAIN f.overrideTokenIds \cup {o.token}
      /\ e.overrideTokenIds[o.token] \in ToSet(ids)
      /\ \A t \in DOMAIN f.overrideTokenIds \ {o.token} :
            e.overrideTokenIds[t] = f.overrideTokenIds[t]
  BY <1>1, <1>2, <1>4, OverrideFacts
<1>6. /\ f.aliases = c.aliases /\ f.overrideTokenIds = c.overrideTokenIds /\ f.threw = c.threw
      /\ SameServices(c, f)
  BY <1>3 DEF Defines
<1>7. SameServices(c, e)
  BY <1>5, <1>6 DEF SameServices
<1>8. \A id : id \notin {OverrideId("token", o.token), g} =>
         Entry(e.definitions, id) = Entry(c.definitions, id)
  BY <1>3, <1>5 DEF Defines
<1>9. /\ \A id \in ToSet(ids) : IdNamesService(id, o.token) \/ id = OverrideId("token", o.token)
      /\ FindRegisteredServiceId(c, o.token) # None =>
            FindRegisteredServiceId(c, o.token) \in ToSet(ids)
      /\ \A r \in ReferencedIds(c) : IdNamesService(r, o.token) => r \in ToSet(ids)
  BY DEF Prepared
<1>10. \A id : id \notin ToSet(ids) => Entry(e.aliases, id) = Entry(c.aliases, id)
  BY <1>5, <1>6
<1>11. /\ DOMAIN e.overrideTokenIds = DOMAIN c.overrideTokenIds \cup {o.token}
       /\ \A t \in DOMAIN c.overrideTokenIds \ {o.token} :
            e.overrideTokenIds[t] = c.overrideTokenIds[t]
  BY <1>5, <1>6
<1>12. ToSet(ids) \subseteq KeyIds
  BY <1>2, ToSetFacts
<1> QED
  BY <1>5, <1>6, <1>7, <1>8, <1>9, <1>10, <1>11, <1>12 DEF Applied

LEMMA RegisteredIsOwn ==
  ASSUME NEW c \in Containers, NEW t, FindRegisteredServiceId(c, t) # None
  PROVE  \E x \in Own(c) : x.id = FindRegisteredServiceId(c, t) /\ IdNamesService(x.id, t)
<1>1. PICK x \in ToSet(c.definitions) :
         IdNamesService(x.id, t) /\ FindRegisteredServiceId(c, t) = x.id
  BY RegisteredFacts
<1>2. x \in Own(c)
  BY <1>1 DEF Own, IdNamesService
<1> QED
  BY <1>1, <1>2

\* A replacement that the override defines itself.
LEMMA MakeFacts ==
  ASSUME NEW c \in Containers, NEW o \in Overrides, NEW d, NEW ids,
         Prepared(c, d, o.token, ids),
         NEW p \in {"class", "factory", "value"}, NEW t \in Tokens, NEW v \in Deliverable,
         \/ o.kind = "useClass" /\ v = o.use /\ p = "class" /\ t = o.use
         \/ /\ o.kind = "useFactory" /\ v = GetService(d, o.use) /\ v # None
            /\ p = "factory" /\ t = o.token
         \/ o.kind = "useValue" /\ v = o.use /\ p = "value" /\ t = o.token
  PROVE  Applied(c, Override(Register(d, OverrideId(p, t), v), o.token, ids, OverrideId(p, t)),
                 o, ToSet(ids), OverrideId(p, t), v)
<1>1. PICK g : g = OverrideId(p, t)
  OBVIOUS
<1>2. PICK f : f = Register(d, g, v)
  OBVIOUS
<1>3. PICK e : e = Override(f, o.token, ids, g)
  OBVIOUS
<1>4. Defines(c, d, {OverrideId("token", o.token)}) /\ d \in Containers
  BY DEF Prepared, Defines
<1>5. p \in OverridePrefixes
  BY DEF OverridePrefixes
<1>6. Defines(d, f, {g}) /\ Entry(f.definitions, g) = Service(g, v)
  BY <1>1, <1>2, <1>4, <1>5, RegisterFacts
<1>7. f \in Containers /\ o.token \in Tokens
  BY <1>6, OverridesFacts DEF Defines
<1>8. g \in TargetIds
  BY <1>1 DEF TargetIds
<1>9. ids \in Seq(KeyIds) /\ ids # <<>>
  BY DEF Prepared
<1>10. e.definitions = f.definitions
  BY <1>3, <1>7, <1>8, <1>9, OverrideFacts
<1>11. Entry(e.definitions, g) = Service(g, v)
  BY <1>6, <1>10
<1>12. Replaces(c, e, o, g, v)
  BY <1>1, <1>4, <1>11 DEF Replaces
<1>13. Applied(c, e, o, ToSet(ids), g, v)
  BY <1>3, <1>6, <1>8, <1>12, RedirectFacts
<1> QED
  BY <1>1, <1>2, <1>3, <1>13

LEMMA ApplyOverrideFacts ==
  ASSUME NEW c \in Containers, NEW o \in Overrides
  PROVE  \/ Threw(c, ApplyOverride(c, o))
         \/ \E ids, g, v : Applied(c, ApplyOverride(c, o), o, ids, g, v)
<1> DEFINE known == KnownTokenIds(c, o.token)
           tokenId == OverrideId("token", o.token)
<1>1. PICK ids : ids = IF known = <<>> THEN <<tokenId>> ELSE known
  OBVIOUS
<1>2. PICK d : d = IF known = <<>> THEN Register(c, tokenId, None) ELSE c
  OBVIOUS
<1>3. o.token \in Tokens
  BY OverridesFacts
<1>4. Prepared(c, d, o.token, ids)
  BY <1>1, <1>2, <1>3, PreparedFacts
<1>5. d \in Containers /\ Defines(c, d, {tokenId})
  BY <1>4 DEF Prepared, Defines
<1>6. PICK registered : registered = FindRegisteredServiceId(d, o.use)
  OBVIOUS
<1>7. PICK classId : classId = IF registered = None THEN OverrideId("class", o.use) ELSE registered
  OBVIOUS
<1>8. PICK e : e = ApplyOverride(c, o)
  OBVIOUS
<1>9. e = CASE o.kind = "useClass" ->
                 Override(IF registered = None THEN Register(d, classId, o.use) ELSE d,
                          o.token, ids, classId)
            [] o.kind = "useFactory" /\ GetService(d, o.use) # None ->
                 Override(Register(d, OverrideId("factory", o.token), GetService(d, o.use)),
                          o.token, ids, OverrideId("factory", o.token))
            [] o.kind = "useFactory" /\ GetService(d, o.use) = None ->
                 [d EXCEPT !.threw = TRUE]
            [] o.kind = "useValue" ->
                 Override(Register(d, OverrideId("value", o.token), o.use),
                          o.token, ids, OverrideId("value", o.token))
  BY <1>1, <1>2, <1>6, <1>7, <1>8 DEF ApplyOverride
<1> HIDE DEF known, tokenId
<1>10. CASE o.kind = "useClass"
  <2>1. e = Override(IF registered = None THEN Register(d, classId, o.use) ELSE d,
                     o.token, ids, classId)
    BY <1>9, <1>10
  <2>2. o.use \in Classes /\ o.use \in Tokens /\ o.use \in Deliverable
    BY <1>10, OverridesFacts DEF Classes, Deliverable
  <2>3. CASE registered = None
    <3>1. e = Override(Register(d, OverrideId("class", o.use), o.use),
                       o.token, ids, OverrideId("class", o.use))
      BY <1>7, <2>1, <2>3
    <3>2. Applied(c, e, o, ToSet(ids), OverrideId("class", o.use), o.use)
      BY <1>4, <1>10, <2>2, <3>1, MakeFacts
    <3> QED
      BY <1>8, <3>2
  <2>4. CASE registered # None
    <3>1. e = Override(d, o.token, ids, registered)
      BY <1>7, <2>1, <2>4
    <3>2. PICK x \in Own(d) : x.id = registered /\ IdNamesService(x.id, o.use)
      BY <1>5, <1>6, <2>4, RegisteredIsOwn
    <3>3. x \in Own(c)
      BY <1>5, <3>2, SameOwn DEF Defines
    <3>4. x \in Definitions
      BY <3>3, DefinitionOfContainer DEF Own
    <3>5. registered \in TargetIds
      BY <3>2, <3>4, DefinitionFacts DEF TargetIds
    <3>6. Replaces(c, e, o, registered, o.use)
      BY <1>10, <3>2, <3>3 DEF Replaces
    <3>7. Defines(d, d, {registered})
      BY <1>5, DefinesNothing DEF Defines
    <3>8. Applied(c, e, o, ToSet(ids), registered, o.use)
      BY <1>4, <3>1, <3>5, <3>6, <3>7, RedirectFacts
    <3> QED
      BY <1>8, <3>8
  <2> QED
    BY <2>3, <2>4
<1>11. CASE o.kind = "useFactory" /\ GetService(d, o.use) # None
  <2>1. e = Override(Register(d, OverrideId("factory", o.token), GetService(d, o.use)),
                     o.token, ids, OverrideId("factory", o.token))
    BY <1>9, <1>11
  <2>2. PICK v : v = GetService(d, o.use)
    OBVIOUS
  <2>3. v \in Deliverable /\ v # None
    BY <1>5, <1>11, <2>2, GetServiceType
  <2>4. Applied(c, e, o, ToSet(ids), OverrideId("factory", o.token), v)
    BY <1>3, <1>4, <1>11, <2>1, <2>2, <2>3, MakeFacts
  <2> QED
    BY <1>8, <2>4
<1>12. CASE o.kind = "useFactory" /\ GetService(d, o.use) = None
  <2>1. e = [d EXCEPT !.threw = TRUE]
    BY <1>9, <1>12
  <2>2. e \in Containers /\ e.definitions = d.definitions /\ e.aliases = d.aliases
        /\ e.overrideTokenIds = d.overrideTokenIds /\ e.threw = TRUE
    BY <1>5, <2>1 DEF Containers
  <2>3. Threw(c, e)
    BY <1>5, <2>2 DEF Threw, Defines, SameServices
  <2> QED
    BY <1>8, <2>3
<1>13. CASE o.kind = "useValue"
  <2>1. e = Override(Register(d, OverrideId("value", o.token), o.use),
                     o.token, ids, OverrideId("value", o.token))
    BY <1>9, <1>13
  <2>2. o.use \in Deliverable
    BY <1>13, OverridesFacts DEF Deliverable
  <2>3. Applied(c, e, o, ToSet(ids), OverrideId("value", o.token), o.use)
    BY <1>3, <1>4, <1>13, <2>1, <2>2, MakeFacts
  <2> QED
    BY <1>8, <2>3
<1> QED
  BY <1>10, <1>11, <1>12, <1>13, OverridesFacts

(***************************************************************************)
(* Loading, and the aliases of parents.                                      *)
(***************************************************************************)
LEMMA LoadedSteps ==
  ASSUME NEW c \in Containers, NEW services \in Seq(Definitions)
  PROVE  \E f : /\ f[0] = c.definitions
                /\ \A n \in 1..Len(services) : f[n] = Put(f[n - 1], services[n])
                /\ Loaded(c, services) = [c EXCEPT !.definitions = f[Len(services)], !.threw = FALSE]
<1> DEFINE S == {s \in Seq(Definitions \cup Made) : Unique(s)}
           N == Len(services)
           Step(n, s) == Put(s, services[n])
           step == [n \in 1..N |-> [s \in S |-> Step(n, s)]]
           Body(f) == [n \in 0..N |->
                IF n = 0 THEN c.definitions
                ELSE Put(f[n - 1], services[n])]
           F == CHOOSE f : f = Body(f)
<1>1. N \in Nat
  OBVIOUS
<1>2. step \in [1..N -> [S -> S]]
  <2>1. ASSUME NEW n \in 1..N, NEW s \in S PROVE Step(n, s) \in S
    <3>1. services[n] \in Definitions \cup Made /\ s \in Seq(Definitions \cup Made) /\ Unique(s)
      OBVIOUS
    <3>2. Put(s, services[n]) \in Seq(Definitions \cup Made)
      BY <3>1, PutFacts
    <3>3. Unique(Put(s, services[n]))
      BY <3>1, PutUnique
    <3> QED
      BY <3>2, <3>3
  <2> HIDE DEF Step, S, N
  <2> QED
    BY <2>1
<1>3. PICK g \in [0..N -> S] : Computes(g, c.definitions, N, step)
  <2>1. c.definitions \in S
    BY ContainerFacts
  <2> HIDE DEF step, N, S
  <2> QED
    BY <1>1, <1>2, <2>1, Recursion
<1>4. \A n \in 1..N : g[n] = Step(n, g[n - 1])
  <2>1. \A n \in 1..N : n - 1 \in 0..N
    BY <1>1
  <2>2. \A n \in 1..N : g[n] = step[n][g[n - 1]] /\ g[n - 1] \in S
    BY <1>3, <2>1 DEF Computes
  <2> HIDE DEF S, N, Step
  <2> QED
    BY <2>2
<1>5. g = Body(g)
  <2>1. g[0] = c.definitions
    BY <1>3 DEF Computes
  <2>2. \A n \in 0..N : n = 0 \/ n \in 1..N
    BY <1>1
  <2>3. \A n \in 0..N : g[n] = Body(g)[n]
    BY <1>4, <2>1, <2>2
  <2> QED
    BY <1>3, <2>3
<1>6. F = Body(F)
  BY <1>5
<1>7. Loaded(c, services) = [c EXCEPT !.definitions = F[N], !.threw = FALSE]
  BY DEF Loaded
<1>8. F[0] = c.definitions /\ \A n \in 1..N : F[n] = Step(n, F[n - 1])
  <2> HIDE DEF F
  <2>1. F[0] = c.definitions
    BY <1>1, <1>6
  <2>2. \A n \in 1..N : n # 0 /\ n \in 0..N
    BY <1>1
  <2> QED
    BY <1>6, <2>1, <2>2
<1> HIDE DEF F
<1> QED
  BY <1>7, <1>8

LEMMA LoadedFacts ==
  ASSUME NEW c \in Containers, NEW services \in Seq(Definitions)
  PROVE  LET e == Loaded(c, services)
         IN /\ e \in Containers /\ e.threw = FALSE
            /\ e.aliases = c.aliases /\ e.overrideTokenIds = c.overrideTokenIds
            /\ ToSet(e.definitions) \subseteq ToSet(c.definitions) \cup ToSet(services)
<1> DEFINE N == Len(services)
           Good(s) == /\ s \in Seq(Definitions \cup Made) /\ Unique(s)
                      /\ ToSet(s) \subseteq ToSet(c.definitions) \cup ToSet(services)
<1>1. PICK f : /\ f[0] = c.definitions
               /\ \A n \in 1..N : f[n] = Put(f[n - 1], services[n])
               /\ Loaded(c, services) = [c EXCEPT !.definitions = f[N], !.threw = FALSE]
  BY LoadedSteps
<1> DEFINE T == {n \in 0..N : Good(f[n])}
<1>2. N \in Nat /\ 0 \in 0..N /\ N \in 0..N
  OBVIOUS
<1>3. 0 \in T
  <2>1. Good(c.definitions)
    BY ContainerFacts
  <2> QED
    BY <1>1, <1>2, <2>1
<1>4. ASSUME NEW n \in Nat, n < N, n \in T PROVE n + 1 \in T
  <2>1. n + 1 \in 1..N /\ (n + 1) - 1 = n /\ n + 1 \in 0..N
    BY <1>2, <1>4
  <2>2. Good(f[n])
    BY <1>4
  <2>3. PICK s : s = f[n]
    OBVIOUS
  <2>4. PICK d : d = services[n + 1]
    OBVIOUS
  <2>5. d \in ToSet(services) /\ d \in Definitions \cup Made
    <3>1. n + 1 \in DOMAIN services
      BY <2>1
    <3> QED
      BY <2>4, <3>1, ToSetFacts
  <2>6. s \in Seq(Definitions \cup Made) /\ Unique(s)
        /\ ToSet(s) \subseteq ToSet(c.definitions) \cup ToSet(services)
    BY <2>2, <2>3
  <2>7. f[n + 1] = Put(s, d)
    BY <1>1, <2>1, <2>3, <2>4
  <2>8. Put(s, d) \in Seq(Definitions \cup Made)
    BY <2>5, <2>6, PutFacts
  <2>9. Unique(Put(s, d))
    BY <2>5, <2>6, PutUnique
  <2>10. ToSet(Put(s, d)) = {x \in ToSet(s) : x.id # d.id} \cup {d}
    BY <2>5, <2>6, PutSet
  <2>11. Good(f[n + 1])
    BY <2>5, <2>6, <2>7, <2>8, <2>9, <2>10
  <2> HIDE DEF Good
  <2> QED
    BY <2>1, <2>11
<1>5. 0..N \subseteq T
  <2> HIDE DEF T, N
  <2> QED
    BY <1>2, <1>3, <1>4, UpTo
<1>6. Good(f[N])
  BY <1>2, <1>5
<1>7. PICK e : e = Loaded(c, services)
  OBVIOUS
<1>8. PICK defs : defs = f[N]
  OBVIOUS
<1>9. e = [c EXCEPT !.definitions = defs, !.threw = FALSE]
  BY <1>1, <1>7, <1>8
<1>10. defs \in Seq(Definitions \cup Made) /\ Unique(defs)
       /\ ToSet(defs) \subseteq ToSet(c.definitions) \cup ToSet(services)
  BY <1>6, <1>8
<1>11. e \in Containers /\ e.definitions = defs /\ e.threw = FALSE
       /\ e.aliases = c.aliases /\ e.overrideTokenIds = c.overrideTokenIds
  BY <1>9, <1>10 DEF Containers
<1> QED
  BY <1>7, <1>10, <1>11

LEMMA ChildrenPlaces ==
  ASSUME NEW c \in Containers
  PROVE  /\ Len(c.definitions) \in Nat /\ DOMAIN c.definitions = 1..Len(c.definitions)
         /\ \A n \in DOMAIN c.definitions :
               ~c.definitions[n].abstract /\ c.definitions[n].parent # None =>
                  /\ c.definitions[n].parent \in ServiceIds
                  /\ c.definitions[n].parent \in KeyIds
                  /\ c.definitions[n].id \in ServiceIds
                  /\ c.definitions[n].id \in TargetIds
<1>1. c.definitions \in Seq(Definitions \cup Made)
  BY ContainerFacts
<1>2. ASSUME NEW n \in DOMAIN c.definitions, c.definitions[n].parent # None
      PROVE  c.definitions[n].parent \in ServiceIds /\ c.definitions[n].id \in ServiceIds
  <2>1. PICK d \in ToSet(c.definitions) : d = c.definitions[n]
    BY DefinitionAt
  <2>2. d \in Definitions
    BY <1>2, <2>1, DefinitionOfContainer, MadeFacts
  <2> QED
    BY <1>2, <2>1, <2>2, DefinitionFacts
<1> QED
  BY <1>1, <1>2 DEF KeyIds, TargetIds

\* The loop of registerParentAliases().
AliasParent(d, s) == IF d.abstract \/ d.parent = None THEN s ELSE SetAlias(s, d.parent, d.id)

LEMMA ParentSteps ==
  ASSUME NEW c \in Containers
  PROVE  \E f : /\ f[0] = c
                /\ \A n \in 1..Len(c.definitions) : f[n] = AliasParent(c.definitions[n], f[n - 1])
                /\ RegisterParentAliases(c) = f[Len(c.definitions)]
<1> DEFINE S == Containers
           N == Len(c.definitions)
           Step(n, s) == AliasParent(c.definitions[n], s)
           step == [n \in 1..N |-> [s \in S |-> Step(n, s)]]
           Body(f) == [n \in 0..N |->
                IF n = 0 THEN c
                ELSE LET d == c.definitions[n]
                     IN IF d.abstract \/ d.parent = None THEN f[n - 1]
                        ELSE SetAlias(f[n - 1], d.parent, d.id)]
           F == CHOOSE f : f = Body(f)
<1>1. N \in Nat
  BY ChildrenPlaces
<1>2. step \in [1..N -> [S -> S]]
  <2>1. ASSUME NEW n \in 1..N, NEW s \in S PROVE Step(n, s) \in S
    <3>1. n \in DOMAIN c.definitions /\ s \in Containers
      BY ChildrenPlaces
    <3>2. CASE c.definitions[n].abstract \/ c.definitions[n].parent = None
      BY <3>1, <3>2 DEF AliasParent
    <3>3. CASE ~(c.definitions[n].abstract \/ c.definitions[n].parent = None)
      <4>1. c.definitions[n].parent \in KeyIds /\ c.definitions[n].id \in TargetIds
        BY <3>1, <3>3, ChildrenPlaces
      <4>2. SetAlias(s, c.definitions[n].parent, c.definitions[n].id) \in Containers
        BY <3>1, <4>1, SetAliasFacts DEF Redirected
      <4> QED
        BY <3>3, <4>2 DEF AliasParent
    <3> QED
      BY <3>2, <3>3
  <2> HIDE DEF Step, S, N
  <2> QED
    BY <2>1
<1>3. PICK g \in [0..N -> S] : Computes(g, c, N, step)
  <2>1. c \in S
    OBVIOUS
  <2> HIDE DEF step, N, S
  <2> QED
    BY <1>1, <1>2, <2>1, Recursion
<1>4. \A n \in 1..N : g[n] = Step(n, g[n - 1])
  <2>1. \A n \in 1..N : n - 1 \in 0..N
    BY <1>1
  <2>2. \A n \in 1..N : g[n] = step[n][g[n - 1]] /\ g[n - 1] \in S
    BY <1>3, <2>1 DEF Computes
  <2> HIDE DEF S, N, Step
  <2> QED
    BY <2>2
<1>5. g = Body(g)
  <2>1. g[0] = c
    BY <1>3 DEF Computes
  <2>2. \A n \in 0..N : n = 0 \/ n \in 1..N
    BY <1>1
  <2>3. \A n \in 0..N : g[n] = Body(g)[n]
    BY <1>4, <2>1, <2>2 DEF AliasParent
  <2> QED
    BY <1>3, <2>3
<1>6. F = Body(F)
  BY <1>5
<1>7. RegisterParentAliases(c) = F[N]
  BY DEF RegisterParentAliases
<1>8. F[0] = c /\ \A n \in 1..N : F[n] = Step(n, F[n - 1])
  <2> HIDE DEF F
  <2>1. F[0] = c
    BY <1>1, <1>6
  <2>2. \A n \in 1..N : n # 0 /\ n \in 0..N
    BY <1>1
  <2> QED
    BY <1>6, <2>1, <2>2 DEF AliasParent
<1> HIDE DEF F
<1> QED
  BY <1>7, <1>8

\* In e, every parent of the first n services is an alias of its last child among
\* them, and nothing else is another alias than in c.
ParentsOf(c, p, n) == {m \in Children(c.definitions, p) : m <= n}

Parents(c, e, n) ==
    /\ e \in Containers
    /\ e.definitions = c.definitions /\ e.overrideTokenIds = c.overrideTokenIds
    /\ e.threw = c.threw
    /\ \A p : p # None /\ ParentsOf(c, p, n) = {} => Entry(e.aliases, p) = Entry(c.aliases, p)
    /\ \A p : p # None /\ ParentsOf(c, p, n) # {} =>
          Entry(e.aliases, p) = [id |-> p, target |-> c.definitions[Max(ParentsOf(c, p, n))].id]

LEMMA ParentStep ==
  ASSUME NEW c \in Containers, NEW s, NEW n \in Nat, n < Len(c.definitions), Parents(c, s, n)
  PROVE  Parents(c, AliasParent(c.definitions[n + 1], s), n + 1)
<1>1. n + 1 \in DOMAIN c.definitions /\ Len(c.definitions) \in Nat
      /\ DOMAIN c.definitions = 1..Len(c.definitions)
  BY ChildrenPlaces
<1>2. PICK d : d = c.definitions[n + 1]
  OBVIOUS
<1>3. \A p : ParentsOf(c, p, n + 1) =
                IF ~d.abstract /\ d.parent = p THEN ParentsOf(c, p, n) \cup {n + 1}
                ELSE ParentsOf(c, p, n)
  BY <1>1, <1>2 DEF ParentsOf, Children
<1>4. CASE d.abstract \/ d.parent = None
  <2>1. AliasParent(d, s) = s
    BY <1>4 DEF AliasParent
  <2>2. \A p : p # None => ParentsOf(c, p, n + 1) = ParentsOf(c, p, n)
    BY <1>3, <1>4
  <2>3. Parents(c, s, n + 1)
    BY <2>2 DEF Parents
  <2> QED
    BY <1>2, <2>1, <2>3
<1>5. CASE ~(d.abstract \/ d.parent = None)
  <2>1. PICK e : e = SetAlias(s, d.parent, d.id)
    OBVIOUS
  <2>2. AliasParent(d, s) = e
    BY <1>5, <2>1 DEF AliasParent
  <2>3. d.parent \in KeyIds /\ d.id \in TargetIds
    BY <1>1, <1>2, <1>5, ChildrenPlaces
  <2>4. s \in Containers
    BY DEF Parents
  <2>5. Redirected(s, e, {d.parent}, d.id)
    BY <2>1, <2>3, <2>4, SetAliasFacts
  <2>6. e \in Containers /\ e.definitions = c.definitions
        /\ e.overrideTokenIds = c.overrideTokenIds /\ e.threw = c.threw
    BY <2>5 DEF Redirected, Parents
  <2>7. ASSUME NEW p, p # None, p # d.parent
        PROVE  /\ ParentsOf(c, p, n + 1) = ParentsOf(c, p, n)
               /\ Entry(e.aliases, p) = Entry(s.aliases, p)
    <3>1. Entry(e.aliases, p) = Entry(s.aliases, p)
      BY <2>5, <2>7 DEF Redirected
    <3> QED
      BY <1>3, <2>7, <3>1
  <2>8. /\ ParentsOf(c, d.parent, n + 1) # {}
        /\ Max(ParentsOf(c, d.parent, n + 1)) = n + 1
        /\ Entry(e.aliases, d.parent) = [id |-> d.parent, target |-> d.id]
    <3>1. PICK Q : Q = ParentsOf(c, d.parent, n + 1)
      OBVIOUS
    <3>2. n + 1 \in Q /\ Q \subseteq 1..(n + 1)
      <4>1. n + 1 \in ParentsOf(c, d.parent, n) \cup {n + 1}
        OBVIOUS
      <4>2. Q = ParentsOf(c, d.parent, n) \cup {n + 1}
        BY <1>3, <1>5, <3>1
      <4>3. ParentsOf(c, d.parent, n) \subseteq 1..n
        BY <1>1 DEF ParentsOf, Children
      <4> QED
        BY <4>1, <4>2, <4>3
    <3>3. n + 1 \in Nat
      OBVIOUS
    <3>4. Max(Q) \in Q /\ \A m \in Q : m <= Max(Q)
      BY <3>2, <3>3, Greatest
    <3>5. Max(Q) \in 1..(n + 1) /\ n + 1 <= Max(Q)
      BY <3>2, <3>4
    <3>6. Max(Q) = n + 1
      BY <3>5
    <3>7. Entry(e.aliases, d.parent) = [id |-> d.parent, target |-> d.id]
      BY <2>5 DEF Redirected
    <3> QED
      BY <3>1, <3>2, <3>6, <3>7
  <2>9. \A p : p # None /\ ParentsOf(c, p, n + 1) = {} =>
           Entry(e.aliases, p) = Entry(c.aliases, p)
    BY <2>7, <2>8 DEF Parents
  <2>10. \A p : p # None /\ ParentsOf(c, p, n + 1) # {} =>
            Entry(e.aliases, p) =
               [id |-> p, target |-> c.definitions[Max(ParentsOf(c, p, n + 1))].id]
    <3> TAKE p
    <3>1. CASE p = d.parent
      BY <1>2, <2>8, <3>1
    <3>2. CASE p # d.parent
      BY <2>7, <3>2 DEF Parents
    <3> QED
      BY <3>1, <3>2
  <2>11. Parents(c, e, n + 1)
    BY <2>6, <2>9, <2>10 DEF Parents
  <2> QED
    BY <1>2, <2>2, <2>11
<1> QED
  BY <1>4, <1>5

LEMMA RegisterParentAliasesFacts ==
  ASSUME NEW c \in Containers
  PROVE  LET e == RegisterParentAliases(c)
         IN /\ e \in Containers
            /\ e.definitions = c.definitions /\ e.overrideTokenIds = c.overrideTokenIds
            /\ e.threw = c.threw
            /\ \A p : p # None /\ Children(c.definitions, p) = {} =>
                  Entry(e.aliases, p) = Entry(c.aliases, p)
            /\ \A p : p # None /\ Children(c.definitions, p) # {} =>
                  Entry(e.aliases, p) =
                     [id |-> p, target |-> c.definitions[Max(Children(c.definitions, p))].id]
<1> DEFINE N == Len(c.definitions)
<1>1. PICK f : /\ f[0] = c
               /\ \A n \in 1..N : f[n] = AliasParent(c.definitions[n], f[n - 1])
               /\ RegisterParentAliases(c) = f[N]
  BY ParentSteps
<1> DEFINE T == {n \in 0..N : Parents(c, f[n], n)}
<1>2. N \in Nat /\ 0 \in 0..N /\ N \in 0..N /\ DOMAIN c.definitions = 1..N
  BY ChildrenPlaces
<1>3. 0 \in T
  <2>1. \A p : ParentsOf(c, p, 0) = {}
    BY <1>2 DEF ParentsOf, Children
  <2>2. Parents(c, c, 0)
    BY <2>1 DEF Parents
  <2> QED
    BY <1>1, <1>2, <2>2
<1>4. ASSUME NEW n \in Nat, n < N, n \in T PROVE n + 1 \in T
  <2>1. n + 1 \in 1..N /\ (n + 1) - 1 = n /\ n + 1 \in 0..N
    BY <1>2, <1>4
  <2>2. PICK s : s = f[n]
    OBVIOUS
  <2>3. Parents(c, s, n)
    BY <1>4, <2>2
  <2>4. f[n + 1] = AliasParent(c.definitions[n + 1], s)
    BY <1>1, <2>1, <2>2
  <2>5. Parents(c, f[n + 1], n + 1)
    BY <1>4, <2>3, <2>4, ParentStep
  <2> QED
    BY <2>1, <2>5
<1>5. 0..N \subseteq T
  <2> HIDE DEF T, N
  <2> QED
    BY <1>2, <1>3, <1>4, UpTo
<1>6. Parents(c, f[N], N)
  BY <1>2, <1>5
<1>7. \A p : ParentsOf(c, p, N) = Children(c.definitions, p)
  BY <1>2 DEF ParentsOf, Children
<1>8. PICK e : e = RegisterParentAliases(c)
  OBVIOUS
<1>9. Parents(c, e, N)
  BY <1>1, <1>6, <1>8
<1> QED
  BY <1>7, <1>8, <1>9 DEF Parents

(***************************************************************************)
(* Overrides, and what is declared.                                          *)
(***************************************************************************)
\* The loop of applyOverrides().
OverrideStep(s, o) == IF s.threw THEN s ELSE ApplyOverride(s, o)

LEMMA OverridesSteps ==
  ASSUME NEW c \in Containers, NEW overrides \in Seq(Overrides)
  PROVE  \E f : /\ f[0] = c
                /\ \A n \in 1..Len(overrides) : f[n] = OverrideStep(f[n - 1], overrides[n])
                /\ ApplyOverrides(c, overrides) = f[Len(overrides)]
<1> DEFINE S == Containers
           N == Len(overrides)
           Step(n, s) == OverrideStep(s, overrides[n])
           step == [n \in 1..N |-> [s \in S |-> Step(n, s)]]
           Body(f) == [n \in 0..N |->
                IF n = 0 THEN c
                ELSE IF f[n - 1].threw THEN f[n - 1]
                     ELSE ApplyOverride(f[n - 1], overrides[n])]
           F == CHOOSE f : f = Body(f)
<1>1. N \in Nat
  OBVIOUS
<1>2. step \in [1..N -> [S -> S]]
  <2>1. ASSUME NEW n \in 1..N, NEW s \in S PROVE Step(n, s) \in S
    <3>1. overrides[n] \in Overrides /\ s \in Containers
      OBVIOUS
    <3>2. ApplyOverride(s, overrides[n]) \in Containers
      BY <3>1, ApplyOverrideFacts DEF Threw, Applied
    <3> QED
      BY <3>1, <3>2 DEF OverrideStep
  <2> HIDE DEF Step, S, N
  <2> QED
    BY <2>1
<1>3. PICK g \in [0..N -> S] : Computes(g, c, N, step)
  <2>1. c \in S
    OBVIOUS
  <2> HIDE DEF step, N, S
  <2> QED
    BY <1>1, <1>2, <2>1, Recursion
<1>4. \A n \in 1..N : g[n] = Step(n, g[n - 1])
  <2>1. \A n \in 1..N : n - 1 \in 0..N
    BY <1>1
  <2>2. \A n \in 1..N : g[n] = step[n][g[n - 1]] /\ g[n - 1] \in S
    BY <1>3, <2>1 DEF Computes
  <2> HIDE DEF S, N, Step
  <2> QED
    BY <2>2
<1>5. g = Body(g)
  <2>1. g[0] = c
    BY <1>3 DEF Computes
  <2>2. \A n \in 0..N : n = 0 \/ n \in 1..N
    BY <1>1
  <2>3. \A n \in 0..N : g[n] = Body(g)[n]
    BY <1>4, <2>1, <2>2 DEF OverrideStep
  <2> QED
    BY <1>3, <2>3
<1>6. F = Body(F)
  BY <1>5
<1>7. ApplyOverrides(c, overrides) = F[N]
  BY DEF ApplyOverrides
<1>8. F[0] = c /\ \A n \in 1..N : F[n] = Step(n, F[n - 1])
  <2> HIDE DEF F
  <2>1. F[0] = c
    BY <1>1, <1>6
  <2>2. \A n \in 1..N : n # 0 /\ n \in 0..N
    BY <1>1
  <2> QED
    BY <1>6, <2>1, <2>2 DEF OverrideStep
<1> HIDE DEF F
<1> QED
  BY <1>7, <1>8

LEMMA DeclaredServiceType ==
  ASSUME NEW c \in Containers, NEW t \in Tokens
  PROVE  DeclaredService(c.definitions, t) \in Deliverable
<1>1. IdOf(t) # None
  BY ServiceIdFacts
<1>2. CASE ~t.literal /\ Children(c.definitions, IdOf(t)) # {}
  <2>1. PICK m : m = Max(Children(c.definitions, IdOf(t)))
    OBVIOUS
  <2>2. m \in Children(c.definitions, IdOf(t))
    BY <1>2, <2>1, ChildrenRange, Greatest
  <2>3. c.definitions[m].delivers \in Classes
    BY <1>1, <2>2, ChildrenFacts, DefinitionFacts
  <2>4. DeclaredService(c.definitions, t) = c.definitions[m].delivers
    BY <1>2, <2>1 DEF DeclaredService
  <2> QED
    BY <2>3, <2>4 DEF Classes, Deliverable
<1>3. CASE ~(~t.literal /\ Children(c.definitions, IdOf(t)) # {})
  <2>1. DeclaredService(c.definitions, t) \in {None, t}
    BY <1>3 DEF DeclaredService
  <2> QED
    BY <2>1 DEF Deliverable
<1> QED
  BY <1>2, <1>3

\* What is declared after one more override.
DeclaredStep(s, o) ==
    [s EXCEPT ![o.token] = IF o.kind = "useFactory" THEN s[o.use] ELSE o.use]

LEMMA DeclaredStepType ==
  ASSUME NEW s \in [Tokens -> Deliverable], NEW o \in Overrides
  PROVE  DeclaredStep(s, o) \in [Tokens -> Deliverable]
<1>1. (IF o.kind = "useFactory" THEN s[o.use] ELSE o.use) \in Deliverable
  <2>1. CASE o.kind = "useFactory"
    <3>1. o.use \in Tokens
      BY <2>1, OverridesFacts
    <3> QED
      BY <2>1, <3>1
  <2>2. CASE o.kind # "useFactory"
    <3>1. o.use \in Tokens \cup Values
      BY <2>2, OverridesFacts DEF Classes
    <3> QED
      BY <2>2, <3>1 DEF Deliverable
  <2> QED
    BY <2>1, <2>2
<1> QED
  BY <1>1 DEF DeclaredStep

LEMMA DeclaredSteps ==
  ASSUME NEW c \in Containers, NEW overrides \in Seq(Overrides)
  PROVE  \E f : /\ f[0] = [t \in Tokens |-> DeclaredService(c.definitions, t)]
                /\ \A n \in 1..Len(overrides) : f[n] = DeclaredStep(f[n - 1], overrides[n])
                /\ Declared(c.definitions, overrides) = f
<1> DEFINE S == [Tokens -> Deliverable]
           N == Len(overrides)
           Step(n, s) == DeclaredStep(s, overrides[n])
           step == [n \in 1..N |-> [s \in S |-> Step(n, s)]]
           Body(f) == [n \in 0..N |->
                IF n = 0 THEN [t \in Tokens |-> DeclaredService(c.definitions, t)]
                ELSE LET o == overrides[n]
                     IN [f[n - 1] EXCEPT ![o.token] =
                            IF o.kind = "useFactory" THEN f[n - 1][o.use] ELSE o.use]]
           F == CHOOSE f : f = Body(f)
<1>1. N \in Nat
  OBVIOUS
<1>2. step \in [1..N -> [S -> S]]
  <2>1. ASSUME NEW n \in 1..N, NEW s \in S PROVE Step(n, s) \in S
    <3>1. overrides[n] \in Overrides
      OBVIOUS
    <3> QED
      BY <3>1, DeclaredStepType
  <2> HIDE DEF Step, S, N
  <2> QED
    BY <2>1
<1>3. PICK g \in [0..N -> S] : Computes(g, [t \in Tokens |-> DeclaredService(c.definitions, t)], N, step)
  <2>1. [t \in Tokens |-> DeclaredService(c.definitions, t)] \in S
    BY DeclaredServiceType
  <2> HIDE DEF step, N, S
  <2> QED
    BY <1>1, <1>2, <2>1, Recursion
<1>4. \A n \in 1..N : g[n] = Step(n, g[n - 1])
  <2>1. \A n \in 1..N : n - 1 \in 0..N
    BY <1>1
  <2>2. \A n \in 1..N : g[n] = step[n][g[n - 1]] /\ g[n - 1] \in S
    BY <1>3, <2>1 DEF Computes
  <2> HIDE DEF S, N, Step
  <2> QED
    BY <2>2
<1>5. g = Body(g)
  <2>1. g[0] = [t \in Tokens |-> DeclaredService(c.definitions, t)]
    BY <1>3 DEF Computes
  <2>2. \A n \in 0..N : n = 0 \/ n \in 1..N
    BY <1>1
  <2>3. \A n \in 0..N : g[n] = Body(g)[n]
    BY <1>4, <2>1, <2>2 DEF DeclaredStep
  <2> QED
    BY <1>3, <2>3
<1>6. F = Body(F)
  BY <1>5
<1>7. Declared(c.definitions, overrides) = F
  BY DEF Declared
<1>8. F[0] = [t \in Tokens |-> DeclaredService(c.definitions, t)] /\ \A n \in 1..N : F[n] = Step(n, F[n - 1])
  <2> HIDE DEF F
  <2>1. F[0] = [t \in Tokens |-> DeclaredService(c.definitions, t)]
    BY <1>1, <1>6
  <2>2. \A n \in 1..N : n # 0 /\ n \in 0..N
    BY <1>1
  <2> QED
    BY <1>6, <2>1, <2>2 DEF DeclaredStep
<1> HIDE DEF F
<1> QED
  BY <1>7, <1>8

(***************************************************************************)
(* A token that no other one of the container can be mistaken for.           *)
(***************************************************************************)
NamedBy(overrides, t) ==
    {t} \cup {o.token : o \in ToSet(overrides)}
        \cup {o.use : o \in {p \in ToSet(overrides) : p.kind # "useValue"}}

Distinct(c, tokens) ==
    LET ids == {d.id : d \in Own(c)} \cup ({d.parent : d \in Own(c)} \ {None})
                  \cup {IdOf(u) : u \in tokens}
    IN \A x, y \in ids : x.name = y.name => x = y

LEMMA UnambiguousIsDistinct ==
  ASSUME NEW c, NEW overrides, NEW t
  PROVE  Unambiguous(c, overrides, t) <=> Distinct(c, NamedBy(overrides, t))
  BY DEF Unambiguous, Distinct, NamedBy, Own

LEMMA SameDistinct ==
  ASSUME NEW a \in Containers, NEW b \in Containers, SameServices(a, b), NEW tokens
  PROVE  Distinct(a, tokens) <=> Distinct(b, tokens)
<1>1. Own(a) = Own(b)
  BY SameOwn
<1> QED
  BY <1>1 DEF Distinct

LEMMA DistinctFacts ==
  ASSUME NEW c \in Containers, NEW tokens \in SUBSET Tokens, Distinct(c, tokens), NEW t \in tokens
  PROVE  /\ \A u \in tokens : u.name = t.name => u = t
         /\ \A d \in Own(c) : IdNamesService(d.id, t) => d.id = IdOf(t)
         /\ \A d \in Own(c) : d.parent # None /\ IdNamesService(d.parent, t) => d.parent = IdOf(t)
         /\ \A p : p # None /\ IdNamesService(p, t) /\ Children(c.definitions, p) # {} => p = IdOf(t)
<1> DEFINE ids == {d.id : d \in Own(c)} \cup ({d.parent : d \in Own(c)} \ {None})
                     \cup {IdOf(u) : u \in tokens}
<1>1. \A x, y \in ids : x.name = y.name => x = y
  BY DEF Distinct
<1>2. \A u \in tokens : u \in Tokens /\ IdOf(u) \in ids /\ IdOf(u).name = u.name
  BY ServiceIdFacts
<1>3. ASSUME NEW u \in tokens, u.name = t.name PROVE u = t
  <2>1. IdOf(u) = IdOf(t)
    BY <1>1, <1>2, <1>3
  <2> QED
    BY <1>2, <2>1, IdsAssumption
<1>4. ASSUME NEW id \in ids, IdNamesService(id, t) PROVE id = IdOf(t)
  BY <1>1, <1>2, <1>4 DEF IdNamesService
<1>5. \A d \in Own(c) : d.id \in ids /\ (d.parent # None => d.parent \in ids)
  OBVIOUS
<1>6. ASSUME NEW p, p # None, IdNamesService(p, t), Children(c.definitions, p) # {}
      PROVE  p = IdOf(t)
  <2>1. PICK n \in Children(c.definitions, p) : TRUE
    BY <1>6
  <2>2. c.definitions[n] \in Own(c) /\ c.definitions[n].parent = p
    BY <1>6, <2>1, ChildrenFacts
  <2>3. p \in ids
    BY <1>5, <1>6, <2>2
  <2> QED
    BY <1>4, <1>6, <2>3
<1> HIDE DEF ids
<1> QED
  BY <1>3, <1>4, <1>5, <1>6

\* A lookup that finds a definition.
LEMMA LookupFound ==
  ASSUME NEW c, NEW id, NEW d, Entry(c.definitions, id) = d, d # None
  PROVE  Lookup(c, id) = IF d.abstract THEN None ELSE d.delivers
  BY DEF Lookup

\* Nothing is an alias but a service and the id of a token.
LEMMA AliasKeys ==
  ASSUME NEW c \in Containers, NEW id, Entry(c.aliases, id) # None
  PROVE  /\ id \in KeyIds /\ id # None
         /\ id.dir \notin OverridePrefixes => id \in ServiceIds
         /\ id.dir \in OverridePrefixes => id.dir = "token"
<1>1. PICK a \in ToSet(c.aliases) : a.id = id
  BY EntryGone
<1> QED
  BY <1>1, AliasOfContainer, KeyFacts

\* What getService() finds when no override and no alias names the token.
LEMMA FindsNone ==
  ASSUME NEW c \in Containers, NEW t, ~t.literal
  PROVE  /\ (\A a : Entry(c.aliases, a) # None => ~IdNamesService(a, t)) =>
               FindAliasServiceId(c, t) = None
         /\ FindAliasServiceId(c, t) # None =>
               /\ IdNamesService(FindAliasServiceId(c, t), t)
               /\ Entry(c.aliases, FindAliasServiceId(c, t)) # None
         /\ \A a : Entry(c.aliases, a) # None /\ IdNamesService(a, t) =>
               FindAliasServiceId(c, t) # None
<1>1. Unique(c.aliases)
  BY ContainerFacts
<1>2. ASSUME NEW a \in ToSet(c.aliases) PROVE Entry(c.aliases, a.id) # None /\ a.id # None
  <2>1. Entry(c.aliases, a.id) = a
    BY <1>1, EntryFound
  <2> QED
    BY <2>1, AliasOfContainer
<1>3. ASSUME NEW a, Entry(c.aliases, a) # None PROVE \E e \in ToSet(c.aliases) : e.id = a
  BY <1>3, EntryGone
<1> QED
  BY <1>2, <1>3, AliasFacts

LEMMA LiteralNamesNone ==
  ASSUME NEW c, NEW t, t.literal
  PROVE  /\ FindAliasServiceId(c, t) = None
         /\ FindConcreteChildServiceId(c, t) = None
         /\ FindRegisteredServiceId(c, t) = None
<1>1. \A id : ~IdNamesService(id, t)
  BY DEF IdNamesService
<1>2. {n \in DOMAIN c.aliases : IdNamesService(c.aliases[n].id, t)} = {}
  BY <1>1
<1>3. {n \in DOMAIN c.definitions : IdNamesService(c.definitions[n].id, t)} = {}
  BY <1>1
<1>4. {n \in DOMAIN c.definitions :
        LET d == c.definitions[n]
        IN ~d.abstract /\ d.parent # None /\ IdNamesService(d.parent, t)} = {}
  BY <1>1
<1> QED
  BY <1>2, <1>3, <1>4
     DEF FindAliasServiceId, FindConcreteChildServiceId, FindRegisteredServiceId, LastId

LEMMA UnreplacedLiteral ==
  ASSUME NEW c \in Containers, NEW t \in Tokens, t.literal, t \notin DOMAIN c.overrideTokenIds
  PROVE  GetService(c, t) = DeclaredService(c.definitions, t)
<1>1. GetService(c, t) = Get(c, IdOf(t))
  BY LiteralNamesNone DEF GetService
<1>2. IdOf(t) \notin ServiceIds /\ IdOf(t).dir \notin OverridePrefixes
  BY IdsAssumption, ServiceIdFacts
<1>3. Entry(c.aliases, IdOf(t)) = None
  BY <1>2, AliasKeys
<1>4. Get(c, IdOf(t)) = Lookup(c, IdOf(t))
  BY <1>3, GetDirect
<1>5. \A d \in Own(c) : d.id # IdOf(t)
  BY <1>2, DefinitionOfContainer, DefinitionFacts DEF Own
<1>6. Entry(c.definitions, IdOf(t)) = None
  BY <1>2, <1>5, EntryOfOwn
<1> QED
  BY <1>1, <1>4, <1>6 DEF Lookup, DeclaredService

\* A class whose id was left as registerParentAliases() made it.
AsLoaded(c, t) ==
    LET id == IdOf(t)
    IN IF Children(c.definitions, id) = {} THEN Entry(c.aliases, id) = None
       ELSE Entry(c.aliases, id) =
               [id |-> id, target |-> c.definitions[Max(Children(c.definitions, id))].id]

\* The container decides nothing on the way to what is delivered.
Unaliased(c, v) == v \in Tokens => Entry(c.aliases, IdOf(v)) = None

LEMMA AliasIsThere ==
  ASSUME NEW id \in KeyIds, NEW target \in TargetIds
  PROVE  /\ [id |-> id, target |-> target] # None
         /\ [id |-> id, target |-> target].target = target
<1>1. [id |-> id, target |-> target] \in AliasEntries
  BY DEF AliasEntries
<1> QED
  BY <1>1, NoneIsNoEntry

LEMMA UnreplacedById ==
  ASSUME NEW c \in Containers, NEW t \in Tokens, ~t.literal, AsLoaded(c, t),
         Unaliased(c, DeclaredService(c.definitions, t))
  PROVE  Get(c, IdOf(t)) = DeclaredService(c.definitions, t)
<1>1. PICK id : id = IdOf(t)
  OBVIOUS
<1>2. id # None /\ id.dir \notin OverridePrefixes
  BY <1>1, ServiceIdFacts
<1>3. CASE Children(c.definitions, id) # {}
  <2>1. PICK m : m = Max(Children(c.definitions, id))
    OBVIOUS
  <2>2. m \in Children(c.definitions, id)
    BY <1>3, <2>1, ChildrenRange, Greatest
  <2>3. PICK d : d = c.definitions[m]
    OBVIOUS
  <2>4. d \in Own(c) /\ d \in Definitions /\ d.abstract = FALSE /\ d.parent = id
    BY <1>2, <2>2, <2>3, ChildrenFacts
  <2>5. d.id \in ServiceIds /\ d.delivers \in Tokens /\ d.id = IdOf(d.delivers)
        /\ d.id.dir \notin OverridePrefixes /\ id \in ServiceIds
    BY <1>2, <2>4, DefinitionFacts DEF Classes
  <2>6. DeclaredService(c.definitions, t) = d.delivers
    BY <1>1, <1>3, <2>1, <2>3 DEF DeclaredService
  <2>7. Entry(c.aliases, d.id) = None
    BY <2>5, <2>6 DEF Unaliased
  <2>8. PICK a : a = [id |-> id, target |-> d.id]
    OBVIOUS
  <2>9. Entry(c.aliases, id) = a
    BY <1>1, <1>3, <2>1, <2>3, <2>8 DEF AsLoaded
  <2>10. a # None /\ a.target = d.id
    BY <2>5, <2>8, AliasIsThere DEF KeyIds, TargetIds
  <2>11. Get(c, id) = Lookup(c, d.id)
    BY <2>7, <2>9, <2>10, GetAliased
  <2>12. Entry(c.definitions, d.id) = d
    BY <2>4, <2>5, EntryOfOwn
  <2>13. d # None
    BY <2>4, NoneIsNoEntry
  <2>14. Lookup(c, d.id) = d.delivers
    BY <2>4, <2>12, <2>13, LookupFound
  <2> QED
    BY <1>1, <2>6, <2>11, <2>14
<1>4. CASE Children(c.definitions, id) = {}
  <2>1. Entry(c.aliases, id) = None
    BY <1>1, <1>4 DEF AsLoaded
  <2>2. Get(c, id) = Lookup(c, id)
    BY <2>1, GetDirect
  <2>3. DeclaredService(c.definitions, t) =
           IF \E d \in ToSet(c.definitions) : d.id = id /\ ~d.abstract THEN t ELSE None
    BY <1>1, <1>4 DEF DeclaredService
  <2>4. CASE \E d \in Own(c) : d.id = id
    <3>1. PICK d \in Own(c) : d.id = id
      BY <2>4
    <3>2. d \in Definitions /\ d \in ToSet(c.definitions) /\ d # None
      BY <3>1, DefinitionOfContainer DEF Own
    <3>3. Entry(c.definitions, id) = d
      BY <1>2, <3>1, EntryOfOwn
    <3>4. d.abstract \in BOOLEAN /\ IdOf(d.delivers) = IdOf(t) /\ d.delivers \in Tokens
      BY <1>1, <3>1, <3>2, DefinitionFacts DEF Classes
    <3>5. d.delivers = t
      BY <3>4, IdsAssumption
    <3>6. \A x \in ToSet(c.definitions) : x.id = id => x = d
      BY <3>1, <3>2, ContainerFacts DEF Unique
    <3>7. Lookup(c, id) = IF d.abstract THEN None ELSE t
      BY <3>2, <3>3, <3>5, LookupFound
    <3> QED
      BY <1>1, <2>2, <2>3, <3>1, <3>2, <3>6, <3>7
  <2>5. CASE ~\E d \in Own(c) : d.id = id
    <3>1. Entry(c.definitions, id) = None
      BY <1>2, <2>5, EntryOfOwn
    <3>2. ~\E d \in ToSet(c.definitions) : d.id = id /\ ~d.abstract
      BY <1>2, <2>5 DEF Own
    <3> QED
      BY <1>1, <2>2, <2>3, <3>1, <3>2 DEF Lookup
  <2> QED
    BY <2>4, <2>5
<1> QED
  BY <1>3, <1>4

\* getService() of a class that no override replaces asks for its id.
LEMMA UnreplacedClass ==
  ASSUME NEW c \in Containers, NEW tokens \in SUBSET Tokens, Distinct(c, tokens),
         NEW t \in tokens, ~t.literal, t \notin DOMAIN c.overrideTokenIds, AsLoaded(c, t),
         \A a : Entry(c.aliases, a) # None /\ IdNamesService(a, t) => Children(c.definitions, a) # {}
  PROVE  GetService(c, t) = Get(c, IdOf(t))
<1>1. t \in Tokens /\ IdOf(t) # None /\ IdOf(t).dir \notin OverridePrefixes
      /\ IdNamesService(IdOf(t), t)
  BY ServiceIdFacts DEF IdNamesService
<1>2. \A a : Entry(c.aliases, a) # None /\ IdNamesService(a, t) => a = IdOf(t)
  <2> SUFFICES ASSUME NEW a, Entry(c.aliases, a) # None, IdNamesService(a, t) PROVE a = IdOf(t)
    OBVIOUS
  <2>1. a # None
    BY AliasKeys
  <2> QED
    BY <2>1, DistinctFacts
<1>3. CASE FindAliasServiceId(c, t) # None
  <2>1. FindAliasServiceId(c, t) = IdOf(t)
    BY <1>2, <1>3, FindsNone
  <2> QED
    BY <1>3, <2>1 DEF GetService
<1>4. CASE FindAliasServiceId(c, t) = None
  <2>1. Entry(c.aliases, IdOf(t)) = None
    BY <1>1, <1>4, FindsNone
  <2>2. Children(c.definitions, IdOf(t)) = {}
    <3> SUFFICES ASSUME Children(c.definitions, IdOf(t)) # {} PROVE FALSE
      OBVIOUS
    <3>1. PICK m : m = Max(Children(c.definitions, IdOf(t)))
      OBVIOUS
    <3>2. m \in Children(c.definitions, IdOf(t))
      BY <3>1, ChildrenRange, Greatest
    <3>3. c.definitions[m] \in Definitions /\ c.definitions[m].parent = IdOf(t)
      <4>1. PICK id : id = IdOf(t)
        OBVIOUS
      <4>2. id # None /\ m \in Children(c.definitions, id)
        BY <1>1, <3>2, <4>1
      <4>3. c.definitions[m] \in Definitions /\ c.definitions[m].parent = id
        BY ONLY <4>2, ChildrenFacts
      <4> QED
        BY <4>1, <4>3
    <3>4. IdOf(t) \in KeyIds /\ c.definitions[m].id \in TargetIds
      BY <1>1, <3>3, DefinitionFacts DEF KeyIds, TargetIds
    <3>5. Entry(c.aliases, IdOf(t)) = [id |-> IdOf(t), target |-> c.definitions[m].id]
      BY <3>1 DEF AsLoaded
    <3> QED
      BY <2>1, <3>4, <3>5, AliasIsThere
  <2>3. FindConcreteChildServiceId(c, t) = None
    <3> SUFFICES ASSUME FindConcreteChildServiceId(c, t) # None PROVE FALSE
      OBVIOUS
    <3>1. PICK d \in ToSet(c.definitions) : ChildOf(d, t)
      BY ChildFacts
    <3>2. PICK n \in DOMAIN c.definitions : c.definitions[n] = d
      BY PlaceOf
    <3>3. n \in Children(c.definitions, d.parent) /\ d.parent # None /\ IdNamesService(d.parent, t)
      BY <3>1, <3>2 DEF ChildOf, Children
    <3>4. d.parent = IdOf(t)
      BY <3>3, DistinctFacts
    <3> QED
      BY <2>2, <3>3, <3>4
  <2>4. FindRegisteredServiceId(c, t) \in {None, IdOf(t)}
    <3> SUFFICES ASSUME FindRegisteredServiceId(c, t) # None
                 PROVE  FindRegisteredServiceId(c, t) = IdOf(t)
      OBVIOUS
    <3>1. PICK x \in Own(c) : x.id = FindRegisteredServiceId(c, t) /\ IdNamesService(x.id, t)
      BY RegisteredIsOwn
    <3> QED
      BY <3>1, DistinctFacts
  <2> QED
    BY <1>4, <2>3, <2>4 DEF GetService
<1> QED
  BY <1>3, <1>4

(***************************************************************************)
(* A token that an override replaced.                                        *)
(***************************************************************************)
\* The ids that constructors get the token injected by.
NamingIds(c, t) ==
    {id \in {d.id : d \in Own(c)} \cup ReferencedIds(c) : IdNamesService(id, t)}

\* Where the replacement v of t may be defined.
Places(tokens, t, v) ==
    {OverrideId("factory", t), OverrideId("value", t)}
        \cup {IdOf(u) : u \in tokens \cap {v}} \cup {OverrideId("class", u) : u \in tokens \cap {v}}

\* The token, and all its ids, lead to where v is defined.
Delivers(c, tokens, t, v) ==
    /\ v # None
    /\ t \in DOMAIN c.overrideTokenIds
    /\ LET tokenId == c.overrideTokenIds[t]
       IN /\ IdNamesService(tokenId, t) \/ tokenId = OverrideId("token", t)
          /\ \E g \in Places(tokens, t, v) :
                /\ Lookup(c, g) = v
                /\ \A id \in NamingIds(c, t) \cup {tokenId} :
                      Entry(c.aliases, id) # None /\ Entry(c.aliases, id).target = g

LEMMA Delivered ==
  ASSUME NEW c \in Containers, NEW tokens \in SUBSET Tokens, NEW t, NEW v,
         Delivers(c, tokens, t, v), Unaliased(c, v)
  PROVE  /\ GetService(c, t) = v
         /\ \A id \in NamingIds(c, t) : Get(c, id) = v
<1>1. PICK g \in Places(tokens, t, v) :
         /\ Lookup(c, g) = v
         /\ \A id \in NamingIds(c, t) \cup {c.overrideTokenIds[t]} :
               Entry(c.aliases, id) # None /\ Entry(c.aliases, id).target = g
  BY DEF Delivers
<1>2. Entry(c.aliases, g) = None
  <2>1. CASE g \in {OverrideId("factory", t), OverrideId("value", t)}
                      \cup {OverrideId("class", u) : u \in tokens \cap {v}}
    <3>1. g.dir \in OverridePrefixes /\ g.dir # "token"
      BY <2>1 DEF OverrideId, OverridePrefixes
    <3> QED
      BY <3>1, AliasKeys
  <2>2. CASE g \in {IdOf(u) : u \in tokens \cap {v}}
    BY <2>2 DEF Unaliased
  <2> QED
    BY <2>1, <2>2 DEF Places
<1>3. ASSUME NEW id \in NamingIds(c, t) \cup {c.overrideTokenIds[t]} PROVE Get(c, id) = v
  <2>1. PICK a : a = Entry(c.aliases, id)
    OBVIOUS
  <2>2. a # None /\ a.target = g
    BY <1>1, <2>1
  <2>3. Get(c, id) = Lookup(c, a.target)
    BY <1>2, <2>1, <2>2, GetAliased
  <2> QED
    BY <1>1, <2>2, <2>3
<1>4. GetService(c, t) = Get(c, c.overrideTokenIds[t])
  BY DEF Delivers, GetService
<1> QED
  BY <1>3, <1>4

LEMMA NamingIsOwn ==
  ASSUME NEW a \in Containers, NEW b \in Containers, SameServices(a, b), NEW t
  PROVE  NamingIds(a, t) = NamingIds(b, t)
<1>1. Own(a) = Own(b)
  BY SameOwn
<1>2. ReferencedIds(a) = ReferencedIds(b)
  BY SameReferenced
<1> QED
  BY <1>1, <1>2 DEF NamingIds

\* The classes that the override names, among tokens that are told apart; no
\* abstract class replaces anything.
Knows(c, tokens, o) ==
    /\ Distinct(c, tokens)
    /\ o.token \in tokens
    /\ o.kind # "useValue" => o.use \in tokens
    /\ o.kind = "useClass" => \A d \in Own(c) : d.abstract => o.use # d.delivers

LEMMA ServiceLookup ==
  ASSUME NEW c, NEW p \in OverridePrefixes, NEW t \in Tokens, NEW v \in Deliverable,
         Entry(c.definitions, OverrideId(p, t)) = Service(OverrideId(p, t), v)
  PROVE  Lookup(c, OverrideId(p, t)) = v
<1>1. PICK s : s = Service(OverrideId(p, t), v)
  OBVIOUS
<1>2. v \in Tokens \cup Values \cup {None}
  BY DEF Deliverable
<1>3. s \in Made
  BY <1>1, <1>2 DEF Made
<1>4. s # None
  BY <1>3, NoneIsNoEntry
<1>5. s.abstract = FALSE /\ s.delivers = v
  BY <1>1 DEF Service
<1>6. Entry(c.definitions, OverrideId(p, t)) = s
  BY <1>1
<1> QED
  BY <1>4, <1>5, <1>6, LookupFound

\* What an override defines, or finds, delivers its replacement.
LEMMA ReplacesFacts ==
  ASSUME NEW c \in Containers, NEW e \in Containers, SameServices(c, e), NEW o \in Overrides,
         NEW tokens \in SUBSET Tokens, Knows(c, tokens, o), NEW g, NEW v, Replaces(c, e, o, g, v)
  PROVE  /\ v # None /\ Lookup(e, g) = v
         /\ \/ o.kind = "useClass" /\ v = o.use /\ v \in tokens /\ g = IdOf(v)
            \/ o.kind = "useClass" /\ v = o.use /\ v \in tokens /\ g = OverrideId("class", v)
            \/ o.kind = "useFactory" /\ g = OverrideId("factory", o.token)
            \/ o.kind = "useValue" /\ g = OverrideId("value", o.token)
<1>1. o.token \in Tokens
  BY OverridesFacts
<1>2. CASE o.kind = "useClass"
  <2>1. /\ v = o.use
        /\ \/ \E x \in Own(c) : x.id = g /\ IdNamesService(g, o.use)
           \/ g = OverrideId("class", o.use) /\ Entry(e.definitions, g) = Service(g, v)
    BY <1>2 DEF Replaces
  <2>2. v \in tokens /\ v \in Tokens /\ v # None
    BY <1>2, <2>1, IdsAssumption DEF Knows
  <2>3. CASE \E x \in Own(c) : x.id = g /\ IdNamesService(g, o.use)
    <3>1. PICK x \in Own(c) : x.id = g /\ IdNamesService(g, v)
      BY <2>1, <2>3
    <3>2. Distinct(c, tokens)
      BY DEF Knows
    <3>3. x.id = IdOf(v)
      BY <2>2, <3>1, <3>2, DistinctFacts
    <3>4. x \in Definitions /\ x # None
      BY DefinitionOfContainer DEF Own
    <3>5. x.id = IdOf(x.delivers) /\ x.delivers \in Tokens /\ x.abstract \in BOOLEAN
          /\ x.id.dir \notin OverridePrefixes
      BY <3>4, DefinitionFacts DEF Classes
    <3>6. x.delivers = v
      BY <2>2, <3>3, <3>5, IdsAssumption
    <3>7. x.abstract = FALSE
      BY <1>2, <2>1, <3>5, <3>6 DEF Knows
    <3>8. x \in Own(e)
      BY SameOwn
    <3>9. Entry(e.definitions, g) = x
      BY <3>1, <3>5, <3>8, EntryOfOwn
    <3>10. Lookup(e, g) = v
      BY <3>4, <3>6, <3>7, <3>9, LookupFound
    <3> QED
      BY <1>2, <2>1, <2>2, <3>1, <3>3, <3>10
  <2>4. CASE g = OverrideId("class", o.use) /\ Entry(e.definitions, g) = Service(g, v)
    <3>1. "class" \in OverridePrefixes /\ v \in Deliverable
      BY <2>2 DEF OverridePrefixes, Deliverable
    <3>2. Lookup(e, g) = v
      BY <2>1, <2>2, <2>4, <3>1, ServiceLookup
    <3> QED
      BY <1>2, <2>1, <2>2, <2>4, <3>2
  <2> QED
    BY <2>1, <2>3, <2>4
<1>3. CASE o.kind = "useFactory"
  <2>1. /\ v # None
        /\ g = OverrideId("factory", o.token) /\ Entry(e.definitions, g) = Service(g, v)
        /\ \E d : Defines(c, d, {OverrideId("token", o.token)}) /\ v = GetService(d, o.use)
    BY <1>3 DEF Replaces
  <2>2. v \in Deliverable
    BY <2>1, GetServiceType DEF Defines
  <2>3. "factory" \in OverridePrefixes
    BY DEF OverridePrefixes
  <2>4. Lookup(e, g) = v
    BY <1>1, <2>1, <2>2, <2>3, ServiceLookup
  <2> QED
    BY <1>3, <2>1, <2>4
<1>4. CASE o.kind = "useValue"
  <2>1. v = o.use /\ g = OverrideId("value", o.token) /\ Entry(e.definitions, g) = Service(g, v)
    BY <1>4 DEF Replaces
  <2>2. v \in Values /\ v # None /\ v \in Deliverable
    BY <1>4, <2>1, OverridesFacts, IdsAssumption DEF Deliverable
  <2>3. "value" \in OverridePrefixes
    BY DEF OverridePrefixes
  <2>4. Lookup(e, g) = v
    BY <1>1, <2>1, <2>2, <2>3, ServiceLookup
  <2> QED
    BY <1>4, <2>1, <2>2, <2>4
<1> QED
  BY <1>2, <1>3, <1>4, OverridesFacts

\* An override delivers what it replaces the token by.
LEMMA NewDelivers ==
  ASSUME NEW c \in Containers, NEW e, NEW o \in Overrides, NEW ids, NEW g, NEW v,
         Applied(c, e, o, ids, g, v),
         NEW tokens \in SUBSET Tokens, Knows(c, tokens, o)
  PROVE  Delivers(e, tokens, o.token, v)
<1>1. PICK t : t = o.token
  OBVIOUS
<1>2. e \in Containers /\ SameServices(c, e) /\ Replaces(c, e, o, g, v)
  BY DEF Applied
<1>3. /\ v # None /\ Lookup(e, g) = v
      /\ \/ o.kind = "useClass" /\ v = o.use /\ v \in tokens /\ g = IdOf(v)
         \/ o.kind = "useClass" /\ v = o.use /\ v \in tokens /\ g = OverrideId("class", v)
         \/ o.kind = "useFactory" /\ g = OverrideId("factory", o.token)
         \/ o.kind = "useValue" /\ g = OverrideId("value", o.token)
  BY <1>2, ReplacesFacts
<1>4. g \in Places(tokens, t, v)
  BY <1>1, <1>3 DEF Places
<1>5. t \in tokens /\ Distinct(c, tokens)
  BY <1>1 DEF Knows
<1>6. NamingIds(e, t) \subseteq ids
  <2> SUFFICES ASSUME NEW id \in NamingIds(e, t) PROVE id \in ids
    OBVIOUS
  <2>1. id \in NamingIds(c, t)
    BY <1>2, NamingIsOwn
  <2>2. IdNamesService(id, t)
    BY <2>1 DEF NamingIds
  <2>3. CASE id \in ReferencedIds(c)
    BY <1>1, <2>2, <2>3 DEF Applied
  <2>4. CASE id \in {d.id : d \in Own(c)}
    <3>1. PICK d \in Own(c) : d.id = id
      BY <2>4
    <3>2. d.id = IdOf(t)
      BY <1>5, <2>2, <3>1, DistinctFacts
    <3>3. FindRegisteredServiceId(c, t) # None
      <4>1. \A x \in ToSet(c.definitions) : IdNamesService(x.id, t) => x.id # None
        BY DefinitionOfContainer, DefinitionFacts, ServiceIdFacts DEF IdNamesService
      <4>2. d \in ToSet(c.definitions) /\ IdNamesService(d.id, t)
        BY <2>2, <3>1 DEF Own
      <4> QED
        BY <4>1, <4>2, RegisteredFacts
    <3>4. PICK x \in Own(c) : x.id = FindRegisteredServiceId(c, t) /\ IdNamesService(x.id, t)
      BY <3>3, RegisteredIsOwn
    <3>5. x.id = IdOf(t)
      BY <1>5, <3>4, DistinctFacts
    <3>6. FindRegisteredServiceId(c, t) \in ids
      BY <1>1, <3>3 DEF Applied
    <3> QED
      BY <3>1, <3>2, <3>4, <3>5, <3>6
  <2> QED
    BY <2>1, <2>3, <2>4 DEF NamingIds
<1>7. PICK tokenId : tokenId = e.overrideTokenIds[t]
  OBVIOUS
<1>8. tokenId \in ids /\ t \in DOMAIN e.overrideTokenIds
  BY <1>1, <1>7 DEF Applied
<1>9. IdNamesService(tokenId, t) \/ tokenId = OverrideId("token", t)
  BY <1>1, <1>8 DEF Applied
<1>10. ASSUME NEW id \in ids
       PROVE  Entry(e.aliases, id) # None /\ Entry(e.aliases, id).target = g
  <2>1. Entry(e.aliases, id) = [id |-> id, target |-> g]
    BY DEF Applied
  <2>2. id \in KeyIds /\ g \in TargetIds
    BY DEF Applied
  <2> QED
    BY <2>1, <2>2, AliasIsThere
<1>11. \A id \in NamingIds(e, t) \cup {tokenId} :
          Entry(e.aliases, id) # None /\ Entry(e.aliases, id).target = g
  BY <1>6, <1>8, <1>10
<1>12. Delivers(e, tokens, t, v)
  BY <1>3, <1>4, <1>7, <1>8, <1>9, <1>11 DEF Delivers
<1> QED
  BY <1>1, <1>12

\* and takes nothing from the other tokens.
LEMMA KeepsDelivers ==
  ASSUME NEW c \in Containers, NEW e, NEW o \in Overrides, NEW ids, NEW g, NEW v,
         Applied(c, e, o, ids, g, v),
         NEW tokens \in SUBSET Tokens, Knows(c, tokens, o),
         NEW t \in tokens, t # o.token, NEW w, Delivers(c, tokens, t, w)
  PROVE  Delivers(e, tokens, t, w)
<1>1. PICK u : u = o.token
  OBVIOUS
<1>2. e \in Containers /\ SameServices(c, e) /\ Replaces(c, e, o, g, v)
  BY DEF Applied
<1>3. /\ v # None /\ Lookup(e, g) = v
      /\ \/ v \in tokens /\ g = IdOf(v)
         \/ v \in tokens /\ g = OverrideId("class", v)
         \/ g = OverrideId("factory", u)
         \/ g = OverrideId("value", u)
  BY <1>1, <1>2, ReplacesFacts
<1>4. u \in tokens /\ u # t /\ Distinct(c, tokens)
  BY <1>1 DEF Knows
<1>5. u.name # t.name
  BY <1>4, DistinctFacts
<1>6. PICK tokenId : tokenId = c.overrideTokenIds[t]
  OBVIOUS
<1>7. /\ w # None
      /\ t \in DOMAIN c.overrideTokenIds
      /\ IdNamesService(tokenId, t) \/ tokenId = OverrideId("token", t)
  BY <1>6 DEF Delivers
<1>8. PICK h \in Places(tokens, t, w) :
         /\ Lookup(c, h) = w
         /\ \A id \in NamingIds(c, t) \cup {tokenId} :
               Entry(c.aliases, id) # None /\ Entry(c.aliases, id).target = h
  BY <1>6 DEF Delivers
<1>9. t \in DOMAIN e.overrideTokenIds /\ e.overrideTokenIds[t] = tokenId
  BY <1>1, <1>4, <1>6, <1>7 DEF Applied
<1>10. \A id : IdNamesService(id, t) \/ id = OverrideId("token", t) => id \notin ids
  <2> SUFFICES ASSUME NEW id, IdNamesService(id, t) \/ id = OverrideId("token", t), id \in ids
               PROVE  FALSE
    OBVIOUS
  <2>1. IdNamesService(id, u) \/ id = OverrideId("token", u)
    BY <1>1 DEF Applied
  <2>2. id.name = t.name
    BY DEF IdNamesService, OverrideId
  <2>3. id.name = u.name
    BY <2>1 DEF IdNamesService, OverrideId
  <2> QED
    BY <1>5, <2>2, <2>3
<1>11. NamingIds(e, t) = NamingIds(c, t)
  BY <1>2, NamingIsOwn
<1>12. \A id \in NamingIds(e, t) \cup {tokenId} :
          Entry(e.aliases, id) # None /\ Entry(e.aliases, id).target = h
  <2> SUFFICES ASSUME NEW id \in NamingIds(c, t) \cup {tokenId}
               PROVE  Entry(e.aliases, id) # None /\ Entry(e.aliases, id).target = h
    BY <1>11
  <2>1. id \notin ids
    BY <1>7, <1>10 DEF NamingIds
  <2>2. Entry(e.aliases, id) = Entry(c.aliases, id)
    BY <2>1 DEF Applied
  <2> QED
    BY <1>8, <2>2
<1>13. Lookup(e, h) = w
  <2>1. CASE h \in {IdOf(x) : x \in tokens \cap {w}}
    <3>1. h.dir \notin OverridePrefixes
      BY <2>1, ServiceIdFacts
    <3>2. Entry(c.definitions, h) = Entry(e.definitions, h)
      BY <1>2, <3>1, SameEntry
    <3> QED
      BY <1>8, <3>2 DEF Lookup
  <2>2. CASE h \in {OverrideId("class", x) : x \in tokens \cap {w}}
    <3>1. w \in tokens /\ h = OverrideId("class", w) /\ h.dir = "class" /\ h.name = w.name
      BY <2>2 DEF OverrideId
    <3>2. CASE g = h
      <4>1. g.dir = "class" /\ g.name = w.name
        BY <3>1, <3>2
      <4>2. v \in tokens /\ g = OverrideId("class", v)
        <5>1. g # OverrideId("factory", u) /\ g # OverrideId("value", u)
          BY <4>1 DEF OverrideId
        <5>2. v \in tokens => g # IdOf(v)
          BY <4>1, ServiceIdFacts DEF OverridePrefixes
        <5> QED
          BY <1>3, <5>1, <5>2
      <4>3. g.name = v.name
        BY <4>2 DEF OverrideId
      <4>4. v = w
        BY <1>4, <3>1, <4>1, <4>2, <4>3, DistinctFacts
      <4> QED
        BY <1>3, <3>2, <4>4
    <3>3. CASE g # h
      <4>1. h # OverrideId("token", u)
        BY <3>1 DEF OverrideId
      <4>2. Entry(e.definitions, h) = Entry(c.definitions, h)
        BY <1>1, <3>3, <4>1 DEF Applied
      <4> QED
        BY <1>8, <4>2 DEF Lookup
    <3> QED
      BY <3>2, <3>3
  <2>3. CASE h \in {OverrideId("factory", t), OverrideId("value", t)}
    <3>1. h.dir \in {"factory", "value"} /\ h.name = t.name
      BY <2>3 DEF OverrideId
    <3>2. g # h
      <4> SUFFICES ASSUME g = h PROVE FALSE
        OBVIOUS
      <4>1. g # OverrideId("factory", u) /\ g # OverrideId("value", u)
        BY <1>5, <3>1 DEF OverrideId
      <4>2. v \in tokens => g # IdOf(v)
        BY <3>1, ServiceIdFacts DEF OverridePrefixes
      <4>3. g # OverrideId("class", v)
        BY <3>1 DEF OverrideId
      <4> QED
        BY <1>3, <4>1, <4>2, <4>3
    <3>3. h # OverrideId("token", u)
      BY <3>1 DEF OverrideId
    <3>4. Entry(e.definitions, h) = Entry(c.definitions, h)
      BY <1>1, <3>2, <3>3 DEF Applied
    <3> QED
      BY <1>8, <3>4 DEF Lookup
  <2> QED
    BY <2>1, <2>2, <2>3 DEF Places
<1>14. Delivers(e, tokens, t, w)
  BY <1>6, <1>7, <1>8, <1>9, <1>12, <1>13 DEF Delivers
<1> QED
  BY <1>14

(***************************************************************************)
(* One call of compile(), override by override.                              *)
(***************************************************************************)
\* Before the overrides a parent is an alias of its last child, and what else is
\* an alias is named by a token that an earlier call replaced.
Begins(loaded, c, before) ==
    /\ DOMAIN c.overrideTokenIds \subseteq before
    /\ \A a : Entry(c.aliases, a) # None /\ a.dir \notin OverridePrefixes =>
          Children(loaded.definitions, a) # {} \/ \E u \in before : IdNamesService(a, u)
    /\ \A p : p # None /\ Children(loaded.definitions, p) # {} =>
          Entry(c.aliases, p) =
             [id |-> p, target |-> loaded.definitions[Max(Children(loaded.definitions, p))].id]

\* f are the containers, and F what is declared, after each of the overrides.
Course(loaded, overrides, tokens, before, f, F) ==
    /\ loaded \in Containers /\ overrides \in Seq(Overrides)
    /\ tokens \in SUBSET Tokens /\ before \subseteq tokens
    /\ \A o \in ToSet(overrides) : Knows(loaded, tokens, o)
    /\ Distinct(loaded, tokens)
    /\ Begins(loaded, f[0], before)
    /\ \A n \in 0..Len(overrides) :
          /\ f[n] \in Containers /\ SameServices(loaded, f[n]) /\ f[n].threw = FALSE
          /\ \A id : Entry(f[n].aliases, id) # None => Entry(f[Len(overrides)].aliases, id) # None
    /\ \A n \in 1..Len(overrides) : f[n] = ApplyOverride(f[n - 1], overrides[n])
    /\ F[0] = [t \in Tokens |-> DeclaredService(loaded.definitions, t)]
    /\ \A n \in 1..Len(overrides) : F[n] = DeclaredStep(F[n - 1], overrides[n])
    /\ \A n \in 1..Len(overrides) : overrides[n].kind = "useFactory" =>
          overrides[n].use \notin before \ Replaced(overrides, 1..n - 1)

\* After some overrides of a call: the container c, the tokens they replaced and
\* what is declared; last is the container at the end of the call.
Stage(loaded, tokens, before, c, done, declared, last) ==
    /\ declared \in [Tokens -> Deliverable]
    /\ done \subseteq tokens
    /\ \A t \in tokens \ done : declared[t] = DeclaredService(loaded.definitions, t)
    /\ DOMAIN c.overrideTokenIds \subseteq before \cup done
    /\ \A a : Entry(c.aliases, a) # None /\ a.dir \notin OverridePrefixes =>
          Children(loaded.definitions, a) # {} \/ \E u \in before \cup done : IdNamesService(a, u)
    /\ \A p : /\ p # None /\ Children(loaded.definitions, p) # {}
              /\ \A u \in done : ~IdNamesService(p, u)
          => Entry(c.aliases, p) =
                [id |-> p, target |-> loaded.definitions[Max(Children(loaded.definitions, p))].id]
    /\ \A t \in done : Unaliased(last, declared[t]) => Delivers(c, tokens, t, declared[t])

\* A token that neither this call nor an earlier one replaced.
LEMMA Untouched ==
  ASSUME NEW loaded \in Containers, NEW tokens \in SUBSET Tokens, Distinct(loaded, tokens),
         NEW before \in SUBSET tokens, NEW c, NEW done, NEW declared, NEW last,
         Stage(loaded, tokens, before, c, done, declared, last),
         NEW d \in Containers, SameServices(loaded, d),
         d.aliases = c.aliases, d.overrideTokenIds = c.overrideTokenIds,
         \A id : Entry(c.aliases, id) # None => Entry(last.aliases, id) # None,
         NEW t \in tokens, t \notin before \cup done, Unaliased(last, declared[t])
  PROVE  /\ GetService(d, t) = declared[t]
         /\ ~t.literal => Get(d, IdOf(t)) = declared[t]
<1>1. t \in Tokens /\ t \notin DOMAIN d.overrideTokenIds
  BY DEF Stage
<1>2. Distinct(d, tokens)
  BY SameDistinct
<1>3. declared[t] = DeclaredService(d.definitions, t)
  <2>1. declared[t] = DeclaredService(loaded.definitions, t)
    BY DEF Stage
  <2>2. DeclaredService(loaded.definitions, t) = DeclaredService(d.definitions, t)
    BY <1>1, SameDeclared
  <2> QED
    BY <2>1, <2>2
<1>4. CASE t.literal
  BY <1>1, <1>3, <1>4, UnreplacedLiteral
<1>5. CASE ~t.literal
  <2>1. \A a, u : u \in before \cup done /\ IdNamesService(a, u) /\ a.name = t.name => FALSE
    <3>1. before \cup done \subseteq tokens
      BY DEF Stage
    <3>2. \A u \in tokens : u.name = t.name => u = t
      BY <1>2, DistinctFacts
    <3> QED
      BY <3>1, <3>2 DEF IdNamesService
  <2>2. \A a : Entry(d.aliases, a) # None /\ a.name = t.name /\ a.dir \notin OverridePrefixes =>
           Children(loaded.definitions, a) # {}
    BY <2>1 DEF Stage
  <2>3. PICK id : id = IdOf(t)
    OBVIOUS
  <2>4. id # None /\ id.dir \notin OverridePrefixes /\ id.name = t.name
    BY <1>1, <2>3, ServiceIdFacts
  <2>5. /\ Children(loaded.definitions, id) = Children(d.definitions, id)
        /\ \A n \in Children(loaded.definitions, id) : loaded.definitions[n] = d.definitions[n]
    BY <2>4, SameChildren
  <2>6. AsLoaded(d, t)
    <3>1. CASE Children(loaded.definitions, id) = {}
      <4>1. Entry(d.aliases, id) = None
        BY <2>2, <2>4, <3>1
      <4> QED
        BY <2>3, <2>5, <3>1, <4>1 DEF AsLoaded
    <3>2. CASE Children(loaded.definitions, id) # {}
      <4>1. \A u \in done : ~IdNamesService(id, u)
        BY <2>1, <2>4
      <4>2. PICK m : m = Max(Children(loaded.definitions, id))
        OBVIOUS
      <4>3. m \in Children(loaded.definitions, id)
        BY <3>2, <4>2, ChildrenRange, Greatest
      <4>4. Entry(d.aliases, id) = [id |-> id, target |-> loaded.definitions[m].id]
        BY <2>4, <3>2, <4>1, <4>2 DEF Stage
      <4>5. Entry(d.aliases, id) = [id |-> id, target |-> d.definitions[m].id]
        BY <2>5, <4>3, <4>4
      <4> QED
        BY <2>3, <2>5, <3>2, <4>2, <4>5 DEF AsLoaded
    <3> QED
      BY <3>1, <3>2
  <2>7. \A a : Entry(d.aliases, a) # None /\ IdNamesService(a, t) => Children(d.definitions, a) # {}
    <3> SUFFICES ASSUME NEW a, Entry(d.aliases, a) # None, IdNamesService(a, t)
                 PROVE  Children(d.definitions, a) # {}
      OBVIOUS
    <3>1. a # None
      BY AliasKeys
    <3>2. Children(loaded.definitions, a) # {}
      BY <2>2 DEF IdNamesService
    <3>3. Children(loaded.definitions, a) = Children(d.definitions, a)
      BY <3>1, SameChildren
    <3> QED
      BY <3>2, <3>3
  <2>8. Unaliased(d, DeclaredService(d.definitions, t))
    BY <1>3 DEF Unaliased
  <2>9. GetService(d, t) = Get(d, IdOf(t))
    BY <1>1, <1>2, <1>5, <2>6, <2>7, UnreplacedClass
  <2>10. Get(d, IdOf(t)) = DeclaredService(d.definitions, t)
    BY <1>1, <1>5, <2>6, <2>8, UnreplacedById
  <2> QED
    BY <1>3, <2>9, <2>10
<1> QED
  BY <1>4, <1>5

\* A token that this call replaced, asked for by a factory.
LEMMA DefinesDelivers ==
  ASSUME NEW c \in Containers, NEW u, NEW d, Defines(c, d, {OverrideId("token", u)}),
         NEW tokens \in SUBSET Tokens, NEW t, NEW v, Delivers(c, tokens, t, v)
  PROVE  Delivers(d, tokens, t, v)
<1>1. d \in Containers /\ SameServices(c, d)
      /\ d.aliases = c.aliases /\ d.overrideTokenIds = c.overrideTokenIds
  BY DEF Defines
<1>2. NamingIds(d, t) = NamingIds(c, t)
  BY <1>1, NamingIsOwn
<1>3. ASSUME NEW g \in Places(tokens, t, v) PROVE Lookup(d, g) = Lookup(c, g)
  <2>1. g.dir # "token"
    BY ServiceIdFacts DEF Places, OverrideId, OverridePrefixes
  <2>2. g # OverrideId("token", u)
    BY <2>1 DEF OverrideId
  <2>3. Entry(d.definitions, g) = Entry(c.definitions, g)
    BY <2>2 DEF Defines
  <2> QED
    BY <2>3 DEF Lookup
<1> QED
  BY <1>1, <1>2, <1>3 DEF Delivers

LEMMA ParentIsService ==
  ASSUME NEW c \in Containers, NEW p, p # None, Children(c.definitions, p) # {}
  PROVE  p \in ServiceIds
<1>1. PICK n : n \in Children(c.definitions, p)
  OBVIOUS
<1>2. PICK d : d = c.definitions[n]
  OBVIOUS
<1>3. d \in Definitions /\ d.parent = p
  BY <1>1, <1>2, ChildrenFacts
<1> QED
  BY <1>3, DefinitionFacts

\* What a factory gets is what is declared of what it asks for.
LEMMA FactoryGets ==
  ASSUME NEW loaded \in Containers, NEW tokens \in SUBSET Tokens, Distinct(loaded, tokens),
         NEW before \in SUBSET tokens, NEW c \in Containers, SameServices(loaded, c),
         NEW done, NEW declared, NEW last,
         Stage(loaded, tokens, before, c, done, declared, last),
         \A id : Entry(c.aliases, id) # None => Entry(last.aliases, id) # None,
         NEW u, NEW d, Defines(c, d, {OverrideId("token", u)}),
         NEW w \in tokens, w \notin before \ done, Unaliased(last, declared[w])
  PROVE  GetService(d, w) = declared[w]
<1>1. d \in Containers /\ SameServices(loaded, d)
      /\ d.aliases = c.aliases /\ d.overrideTokenIds = c.overrideTokenIds
  BY SameTrans DEF Defines
<1>2. CASE w \in done
  <2>1. Delivers(c, tokens, w, declared[w])
    BY <1>2 DEF Stage
  <2>2. Delivers(d, tokens, w, declared[w])
    BY <2>1, DefinesDelivers
  <2>3. Unaliased(d, declared[w])
    BY <1>1 DEF Unaliased
  <2> QED
    BY <1>1, <2>2, <2>3, Delivered
<1>3. CASE w \notin done
  <2>1. w \notin before \cup done
    BY <1>3
  <2> QED
    BY <1>1, <2>1, Untouched
<1> QED
  BY <1>2, <1>3

LEMMA SameKnows ==
  ASSUME NEW a \in Containers, NEW b \in Containers, SameServices(a, b), NEW tokens, NEW o,
         Knows(a, tokens, o)
  PROVE  Knows(b, tokens, o)
<1>1. Own(a) = Own(b)
  BY SameOwn
<1>2. Distinct(b, tokens)
  BY SameDistinct DEF Knows
<1> QED
  BY <1>1, <1>2 DEF Knows

LEMMA StageStep ==
  ASSUME NEW loaded \in Containers, NEW tokens \in SUBSET Tokens, Distinct(loaded, tokens),
         NEW before \in SUBSET tokens, NEW c \in Containers, SameServices(loaded, c),
         NEW done, NEW declared, NEW last,
         Stage(loaded, tokens, before, c, done, declared, last),
         \A id : Entry(c.aliases, id) # None => Entry(last.aliases, id) # None,
         NEW o \in Overrides, Knows(loaded, tokens, o),
         o.kind = "useFactory" => o.use \notin before \ done,
         NEW e, NEW ids, NEW g, NEW v, Applied(c, e, o, ids, g, v)
  PROVE  Stage(loaded, tokens, before, e, done \cup {o.token}, DeclaredStep(declared, o), last)
<1>1. PICK t : t = o.token
  OBVIOUS
<1>2. PICK after : after = DeclaredStep(declared, o)
  OBVIOUS
<1>3. Knows(c, tokens, o) /\ t \in tokens /\ Distinct(c, tokens)
  BY <1>1, SameKnows DEF Knows
<1>4. declared \in [Tokens -> Deliverable] /\ t \in Tokens
  BY <1>1, OverridesFacts DEF Stage
<1>5. after \in [Tokens -> Deliverable]
  BY <1>2, <1>4, DeclaredStepType
<1>6. /\ after[t] = IF o.kind = "useFactory" THEN declared[o.use] ELSE o.use
      /\ \A u \in Tokens \ {t} : after[u] = declared[u]
  BY <1>1, <1>2, <1>4 DEF DeclaredStep
<1>7. done \cup {t} \subseteq tokens
  BY <1>3 DEF Stage
<1>8. \A u \in tokens \ (done \cup {t}) : after[u] = DeclaredService(loaded.definitions, u)
  BY <1>6 DEF Stage
<1>9. DOMAIN e.overrideTokenIds \subseteq before \cup (done \cup {t})
  <2>1. DOMAIN e.overrideTokenIds = DOMAIN c.overrideTokenIds \cup {t}
    BY <1>1 DEF Applied
  <2>2. DOMAIN c.overrideTokenIds \subseteq before \cup done
    BY DEF Stage
  <2> QED
    BY <2>1, <2>2
<1>10. \A id \in ids : IdNamesService(id, t) \/ id = OverrideId("token", t)
  BY <1>1 DEF Applied
<1>11. \A a : Entry(e.aliases, a) # None /\ a.dir \notin OverridePrefixes =>
          Children(loaded.definitions, a) # {}
             \/ \E u \in before \cup (done \cup {t}) : IdNamesService(a, u)
  <2> SUFFICES ASSUME NEW a, Entry(e.aliases, a) # None, a.dir \notin OverridePrefixes
               PROVE  Children(loaded.definitions, a) # {}
                         \/ \E u \in before \cup (done \cup {t}) : IdNamesService(a, u)
    OBVIOUS
  <2>1. CASE a \in ids
    <3>1. a # OverrideId("token", t)
      BY DEF OverrideId, OverridePrefixes
    <3> QED
      BY <1>10, <2>1, <3>1
  <2>2. CASE a \notin ids
    <3>1. Entry(c.aliases, a) # None
      BY <2>2 DEF Applied
    <3> QED
      BY <3>1 DEF Stage
  <2> QED
    BY <2>1, <2>2
<1>12. \A p : /\ p # None /\ Children(loaded.definitions, p) # {}
              /\ \A u \in done \cup {t} : ~IdNamesService(p, u)
          => Entry(e.aliases, p) =
                [id |-> p, target |-> loaded.definitions[Max(Children(loaded.definitions, p))].id]
  <2> SUFFICES ASSUME NEW p, p # None, Children(loaded.definitions, p) # {},
                      \A u \in done \cup {t} : ~IdNamesService(p, u)
               PROVE  Entry(e.aliases, p) =
                [id |-> p, target |-> loaded.definitions[Max(Children(loaded.definitions, p))].id]
    OBVIOUS
  <2>1. p \notin ids
    <3>3. p \in ServiceIds
      BY ParentIsService
    <3>4. p # OverrideId("token", t)
      BY <3>3, ServiceIdFacts DEF OverrideId, OverridePrefixes
    <3> QED
      BY <1>10, <3>4
  <2>2. Entry(e.aliases, p) = Entry(c.aliases, p)
    BY <2>1 DEF Applied
  <2> QED
    BY <2>2 DEF Stage
<1>13. ASSUME Unaliased(last, after[t]) PROVE Delivers(e, tokens, t, after[t])
  <2>1. v = after[t]
    <3>1. Replaces(c, e, o, g, v)
      BY DEF Applied
    <3>2. CASE o.kind # "useFactory"
      BY <1>6, <3>1, <3>2 DEF Replaces
    <3>3. CASE o.kind = "useFactory"
      <4>1. PICK d : Defines(c, d, {OverrideId("token", t)}) /\ v = GetService(d, o.use)
        BY <1>1, <3>1, <3>3 DEF Replaces
      <4>2. PICK w : w = o.use
        OBVIOUS
      <4>3. w \in tokens /\ w \notin before \ done
        BY <3>3, <4>2 DEF Knows
      <4>4. Unaliased(last, declared[w]) /\ after[t] = declared[w]
        BY <1>6, <1>13, <3>3, <4>2
      <4>5. GetService(d, w) = declared[w]
        BY <4>1, <4>3, <4>4, FactoryGets
      <4> QED
        BY <4>1, <4>2, <4>4, <4>5
    <3> QED
      BY <3>2, <3>3
  <2>2. Delivers(e, tokens, o.token, v)
    BY <1>3, NewDelivers
  <2> QED
    BY <1>1, <2>1, <2>2
<1>14. ASSUME NEW u \in done, u # t, Unaliased(last, after[u])
       PROVE  Delivers(e, tokens, u, after[u])
  <2>1. u \in tokens /\ u \in Tokens
    BY <1>7
  <2>2. after[u] = declared[u]
    BY <1>6, <1>14, <2>1
  <2>3. PICK w : w = after[u]
    OBVIOUS
  <2>4. Delivers(c, tokens, u, w)
    BY <1>14, <2>2, <2>3 DEF Stage
  <2>5. u # o.token
    BY <1>1, <1>14
  <2>6. Delivers(e, tokens, u, w)
    BY <1>3, <2>1, <2>4, <2>5, KeepsDelivers
  <2> QED
    BY <2>3, <2>6
<1>15. \A u \in done \cup {t} : Unaliased(last, after[u]) => Delivers(e, tokens, u, after[u])
  BY <1>13, <1>14
<1>16. Stage(loaded, tokens, before, e, done \cup {t}, after, last)
  BY <1>5, <1>7, <1>8, <1>9, <1>11, <1>12, <1>15 DEF Stage
<1> QED
  BY <1>1, <1>2, <1>16

\* So it is after every override of a call.
LEMMA Stages ==
  ASSUME NEW loaded, NEW overrides, NEW tokens, NEW before, NEW f, NEW F,
         Course(loaded, overrides, tokens, before, f, F)
  PROVE  LET N == Len(overrides)
         IN Stage(loaded, tokens, before, f[N], Replaced(overrides, 1..N), F[N], f[N])
<1> DEFINE N == Len(overrides)
           Done(n) == Replaced(overrides, 1..n)
           T == {n \in 0..N : Stage(loaded, tokens, before, f[n], Done(n), F[n], f[N])}
<1>1. /\ loaded \in Containers /\ overrides \in Seq(Overrides)
      /\ tokens \in SUBSET Tokens /\ before \in SUBSET tokens
      /\ \A o \in ToSet(overrides) : Knows(loaded, tokens, o)
      /\ Distinct(loaded, tokens)
  BY DEF Course
<1>2. N \in Nat /\ 0 \in 0..N /\ N \in 0..N /\ DOMAIN overrides = 1..N
  BY <1>1
<1>3. 0 \in T
  <2>1. Begins(loaded, f[0], before)
        /\ F[0] = [t \in Tokens |-> DeclaredService(loaded.definitions, t)]
    BY DEF Course
  <2>2. Done(0) = {}
    BY DEF Replaced
  <2>3. F[0] \in [Tokens -> Deliverable]
    BY <1>1, <2>1, DeclaredServiceType
  <2>4. \A t \in tokens : F[0][t] = DeclaredService(loaded.definitions, t)
    BY <1>1, <2>1
  <2>5. Stage(loaded, tokens, before, f[0], {}, F[0], f[N])
    BY <2>1, <2>3, <2>4 DEF Stage, Begins
  <2> QED
    BY <1>2, <2>2, <2>5
<1>4. ASSUME NEW n \in Nat, n < N, n \in T PROVE n + 1 \in T
  <2>1. n + 1 \in 1..N /\ (n + 1) - 1 = n /\ n + 1 \in 0..N /\ n \in 0..N
    BY <1>2, <1>4
  <2>2. PICK o : o = overrides[n + 1]
    OBVIOUS
  <2>3. o \in Overrides /\ o \in ToSet(overrides)
    BY <1>1, <1>2, <2>1, <2>2, ToSetFacts
  <2>4. PICK c : c = f[n]
    OBVIOUS
  <2>5. PICK e : e = f[n + 1]
    OBVIOUS
  <2>6. PICK last : last = f[N]
    OBVIOUS
  <2>7. /\ c \in Containers /\ SameServices(loaded, c) /\ c.threw = FALSE
        /\ \A id : Entry(c.aliases, id) # None => Entry(last.aliases, id) # None
    BY <2>1, <2>4, <2>6 DEF Course
  <2>8. e.threw = FALSE
    BY <2>1, <2>5 DEF Course
  <2>9. e = ApplyOverride(c, o)
    BY <2>1, <2>2, <2>4, <2>5 DEF Course
  <2>10. PICK ids, g, v : Applied(c, e, o, ids, g, v)
    BY <2>3, <2>7, <2>8, <2>9, ApplyOverrideFacts DEF Threw
  <2>11. PICK done : done = Done(n)
    OBVIOUS
  <2>12. Done(n + 1) = done \cup {o.token}
    <3>1. \A k : k \in 1..(n + 1) <=> k \in 1..n \/ k = n + 1
      BY <1>4
    <3> QED
      BY <2>2, <2>11, <3>1 DEF Replaced
  <2>13. o.kind = "useFactory" => o.use \notin before \ done
    BY <2>1, <2>2, <2>11 DEF Course
  <2>14. PICK declared : declared = F[n]
    OBVIOUS
  <2>15. F[n + 1] = DeclaredStep(declared, o)
    BY <2>1, <2>2, <2>14 DEF Course
  <2>16. Stage(loaded, tokens, before, c, done, declared, last)
    BY <1>4, <2>4, <2>6, <2>11, <2>14
  <2>17. Knows(loaded, tokens, o)
    BY <1>1, <2>3
  <2>18. Stage(loaded, tokens, before, e, done \cup {o.token}, DeclaredStep(declared, o), last)
    BY <1>1, <2>3, <2>7, <2>10, <2>13, <2>16, <2>17, StageStep
  <2>19. Stage(loaded, tokens, before, f[n + 1], Done(n + 1), F[n + 1], f[N])
    BY <2>5, <2>6, <2>12, <2>15, <2>18
  <2> QED
    BY <2>1, <2>19
<1>5. 0..N \subseteq T
  <2> HIDE DEF T, N
  <2> QED
    BY <1>2, <1>3, <1>4, UpTo
<1> QED
  BY <1>2, <1>5

\* What getService() and the constructors get at the end of a call.
Resolves(c, overrides, t, v) ==
    /\ GetService(c, t) = v
    /\ \A id \in {d.id : d \in ToSet(c.definitions)}
                 \cup UNION {ToSet(d.references) : d \in ToSet(c.definitions)} :
          IdNamesService(id, t) /\ (id = IdOf(t) \/ \E o \in ToSet(overrides) : o.token = t)
             => Get(c, id) = v
    /\ HasService(c, t) \/ v = None

LEMMA CourseResolves ==
  ASSUME NEW loaded, NEW overrides, NEW tokens, NEW before, NEW f, NEW F,
         Course(loaded, overrides, tokens, before, f, F),
         before \in {{}, Replaced(overrides, DOMAIN overrides)},
         NEW t \in tokens, NEW c, c = f[Len(overrides)],
         NEW v, v = F[Len(overrides)][t], Unaliased(c, v)
  PROVE  Resolves(c, overrides, t, v)
<1> DEFINE N == Len(overrides)
<1>1. /\ loaded \in Containers /\ overrides \in Seq(Overrides)
      /\ tokens \in SUBSET Tokens /\ before \in SUBSET tokens
      /\ Distinct(loaded, tokens)
  BY DEF Course
<1>2. N \in 0..N /\ DOMAIN overrides = 1..N
  BY <1>1
<1>3. c \in Containers /\ SameServices(loaded, c) /\ t \in Tokens
  BY <1>1, <1>2 DEF Course
<1>4. PICK done : done = Replaced(overrides, 1..N)
  OBVIOUS
<1>5. PICK declared : declared = F[N]
  OBVIOUS
<1>6. Stage(loaded, tokens, before, c, done, declared, c) /\ v = declared[t]
  BY <1>4, <1>5, Stages
<1>7. t \in done <=> \E o \in ToSet(overrides) : o.token = t
  BY <1>1, <1>2, <1>4, ToSetFacts DEF Replaced
<1>8. \A id \in {d.id : d \in ToSet(c.definitions)}
                 \cup UNION {ToSet(d.references) : d \in ToSet(c.definitions)} :
         IdNamesService(id, t) => id \in NamingIds(c, t)
  BY DEF NamingIds, Own, ReferencedIds, IdNamesService
<1>9. CASE t \in done
  <2>1. Delivers(c, tokens, t, v)
    BY <1>6, <1>9 DEF Stage
  <2>2. GetService(c, t) = v /\ \A id \in NamingIds(c, t) : Get(c, id) = v
    BY <1>1, <1>3, <2>1, Delivered
  <2>3. HasService(c, t) \/ v = None
    BY <1>3, <2>2, DeliveredIsKnown
  <2> QED
    BY <1>8, <2>2, <2>3 DEF Resolves
<1>10. CASE t \notin done
  <2>1. t \notin before \cup done
    BY <1>2, <1>4, <1>10
  <2>2. /\ GetService(c, t) = v
        /\ ~t.literal => Get(c, IdOf(t)) = v
    BY <1>1, <1>3, <1>6, <2>1, Untouched
  <2>3. HasService(c, t) \/ v = None
    BY <1>3, <2>2, DeliveredIsKnown
  <2> QED
    BY <1>7, <1>10, <2>2, <2>3 DEF Resolves, IdNamesService
<1> QED
  BY <1>9, <1>10

(***************************************************************************)
(* compile() as a whole.                                                     *)
(***************************************************************************)
\* What overrides of these tokens do to a container, whether one throws or not.
Grows(a, b, tokens) ==
    /\ b \in Containers /\ SameServices(a, b)
    /\ \A id : Entry(a.aliases, id) # None => Entry(b.aliases, id) # None
    /\ DOMAIN b.overrideTokenIds \subseteq DOMAIN a.overrideTokenIds \cup tokens
    /\ b.threw = FALSE => a.threw = FALSE

LEMMA GrowsRefl ==
  ASSUME NEW a \in Containers, NEW tokens
  PROVE  Grows(a, a, tokens)
  BY SameRefl DEF Grows

LEMMA GrowsTrans ==
  ASSUME NEW a, NEW b, NEW c, NEW tokens, Grows(a, b, tokens), Grows(b, c, tokens)
  PROVE  Grows(a, c, tokens)
<1>1. SameServices(a, c)
  BY SameTrans DEF Grows
<1> QED
  BY <1>1 DEF Grows

LEMMA StepGrows ==
  ASSUME NEW s \in Containers, NEW o \in Overrides, NEW tokens, o.token \in tokens
  PROVE  Grows(s, OverrideStep(s, o), tokens)
<1>1. CASE s.threw
  <2>1. OverrideStep(s, o) = s
    BY <1>1 DEF OverrideStep
  <2> QED
    BY <2>1, GrowsRefl
<1>2. CASE ~s.threw
  <2>1. PICK e : e = ApplyOverride(s, o)
    OBVIOUS
  <2>2. OverrideStep(s, o) = e
    BY <1>2, <2>1 DEF OverrideStep
  <2>3. s.threw = FALSE
    BY <1>2, ContainerFacts
  <2>4. CASE Threw(s, e)
    <3>1. e.threw # FALSE
      BY <2>4 DEF Threw
    <3> QED
      BY <2>2, <2>4, <3>1 DEF Threw, Grows
  <2>5. CASE \E ids, g, v : Applied(s, e, o, ids, g, v)
    <3>1. PICK ids, g, v : Applied(s, e, o, ids, g, v)
      BY <2>5
    <3>2. ids \subseteq KeyIds /\ g \in TargetIds
      BY <3>1 DEF Applied
    <3>3. ASSUME NEW id, Entry(s.aliases, id) # None PROVE Entry(e.aliases, id) # None
      <4>1. CASE id \in ids
        <5>1. Entry(e.aliases, id) = [id |-> id, target |-> g]
          BY <3>1, <4>1 DEF Applied
        <5> QED
          BY <3>2, <4>1, <5>1, AliasIsThere
      <4>2. CASE id \notin ids
        BY <3>1, <3>3, <4>2 DEF Applied
      <4> QED
        BY <4>1, <4>2
    <3>4. e \in Containers /\ SameServices(s, e)
          /\ DOMAIN e.overrideTokenIds = DOMAIN s.overrideTokenIds \cup {o.token}
      BY <3>1 DEF Applied
    <3> QED
      BY <2>2, <2>3, <3>3, <3>4 DEF Grows
  <2> QED
    BY <2>1, <2>4, <2>5, ApplyOverrideFacts
<1> QED
  BY <1>1, <1>2

TokensOfOverrides(overrides) == Replaced(overrides, DOMAIN overrides)

LEMMA OverridesGrow ==
  ASSUME NEW c \in Containers, NEW overrides \in Seq(Overrides), NEW f, f[0] = c,
         \A n \in 1..Len(overrides) : f[n] = OverrideStep(f[n - 1], overrides[n])
  PROVE  \A n \in 0..Len(overrides) :
            /\ Grows(c, f[n], TokensOfOverrides(overrides))
            /\ Grows(f[n], f[Len(overrides)], TokensOfOverrides(overrides))
<1> DEFINE N == Len(overrides)
<1>1. N \in Nat /\ 0 \in 0..N /\ DOMAIN overrides = 1..N
  OBVIOUS
<1>2. PICK X : X = TokensOfOverrides(overrides)
  OBVIOUS
<1>3. \A n \in 1..N : overrides[n] \in Overrides /\ overrides[n].token \in X
  BY <1>1, <1>2 DEF TokensOfOverrides, Replaced
<1> DEFINE T == {n \in 0..N : Grows(c, f[n], X)}
           U == {k \in 0..N : Grows(f[N - k], f[N], X)}
<1>4. 0..N \subseteq T
  <2>1. 0 \in T
    BY <1>1, GrowsRefl
  <2>2. ASSUME NEW n \in Nat, n < N, n \in T PROVE n + 1 \in T
    <3>1. n + 1 \in 1..N /\ (n + 1) - 1 = n /\ n + 1 \in 0..N
      BY <1>1, <2>2
    <3>2. PICK s : s = f[n]
      OBVIOUS
    <3>3. Grows(c, s, X) /\ s \in Containers
      BY <2>2, <3>2 DEF Grows
    <3>4. PICK o : o = overrides[n + 1]
      OBVIOUS
    <3>5. o \in Overrides /\ o.token \in X
      BY <1>3, <3>1, <3>4
    <3>6. f[n + 1] = OverrideStep(s, o)
      BY <3>1, <3>2, <3>4
    <3>7. Grows(s, f[n + 1], X)
      BY <3>3, <3>5, <3>6, StepGrows
    <3>8. Grows(c, f[n + 1], X)
      BY <3>3, <3>7, GrowsTrans
    <3> QED
      BY <3>1, <3>8
  <2> HIDE DEF T, N
  <2> QED
    BY <1>1, <2>1, <2>2, UpTo
<1>5. \A n \in 0..N : f[n] \in Containers
  BY <1>4 DEF Grows
<1>6. 0..N \subseteq U
  <2>1. 0 \in U
    <3>1. f[N] \in Containers /\ N - 0 = N
      BY <1>1, <1>5
    <3> QED
      BY <1>1, <3>1, GrowsRefl
  <2>2. ASSUME NEW k \in Nat, k < N, k \in U PROVE k + 1 \in U
    <3>1. N - k \in 1..N /\ (N - k) - 1 = N - (k + 1) /\ k + 1 \in 0..N /\ N - (k + 1) \in 0..N
      BY <1>1, <2>2
    <3>2. PICK s : s = f[N - (k + 1)]
      OBVIOUS
    <3>3. PICK o : o = overrides[N - k]
      OBVIOUS
    <3>4. s \in Containers /\ o \in Overrides /\ o.token \in X
      BY <1>3, <1>5, <3>1, <3>2, <3>3
    <3>5. f[N - k] = OverrideStep(s, o)
      BY <3>1, <3>2, <3>3
    <3>6. Grows(s, f[N - k], X)
      BY <3>4, <3>5, StepGrows
    <3>7. Grows(f[N - k], f[N], X)
      BY <2>2
    <3>8. Grows(s, f[N], X)
      BY <3>6, <3>7, GrowsTrans
    <3> QED
      BY <3>1, <3>2, <3>8
  <2> HIDE DEF U, N
  <2> QED
    BY <1>1, <2>1, <2>2, UpTo
<1>7. ASSUME NEW n \in 0..N PROVE Grows(f[n], f[N], X)
  <2>1. N - n \in 0..N /\ N - (N - n) = n
    BY <1>1
  <2>2. N - n \in U
    BY <1>6, <2>1
  <2> QED
    BY <2>1, <2>2
<1> QED
  BY <1>2, <1>4, <1>7

LEMMA CompiledSteps ==
  ASSUME NEW c \in Containers, NEW services \in Seq(Definitions), NEW overrides \in Seq(Overrides)
  PROVE  LET loaded == Loaded(c, services)
             N == Len(overrides)
         IN \E f : /\ f[0] = RegisterParentAliases(loaded)
                   /\ \A n \in 1..N : f[n] = OverrideStep(f[n - 1], overrides[n])
                   /\ \A n \in 0..N : /\ Grows(f[0], f[n], TokensOfOverrides(overrides))
                                      /\ Grows(f[n], f[N], TokensOfOverrides(overrides))
                   /\ Compiled(c, services, overrides) = f[N]
<1>1. PICK loaded : loaded = Loaded(c, services)
  OBVIOUS
<1>2. loaded \in Containers
  BY <1>1, LoadedFacts
<1>3. PICK r : r = RegisterParentAliases(loaded)
  OBVIOUS
<1>4. r \in Containers
  BY <1>2, <1>3, RegisterParentAliasesFacts
<1>5. PICK f : /\ f[0] = r
               /\ \A n \in 1..Len(overrides) : f[n] = OverrideStep(f[n - 1], overrides[n])
               /\ ApplyOverrides(r, overrides) = f[Len(overrides)]
  BY <1>4, OverridesSteps
<1>6. Compiled(c, services, overrides) = f[Len(overrides)]
  BY <1>1, <1>3, <1>5 DEF Compiled
<1>7. \A n \in 0..Len(overrides) :
         /\ Grows(r, f[n], TokensOfOverrides(overrides))
         /\ Grows(f[n], f[Len(overrides)], TokensOfOverrides(overrides))
  BY <1>4, <1>5, OverridesGrow
<1> QED
  BY <1>1, <1>3, <1>5, <1>6, <1>7

\* Whatever compile() makes is a container, of the services that were loaded.
LEMMA CompiledFacts ==
  ASSUME NEW c \in Containers, NEW services \in Seq(Definitions), NEW overrides \in Seq(Overrides)
  PROVE  LET e == Compiled(c, services, overrides)
         IN /\ e \in Containers
            /\ SameServices(Loaded(c, services), e)
            /\ DOMAIN e.overrideTokenIds \subseteq
                  DOMAIN c.overrideTokenIds \cup TokensOfOverrides(overrides)
            /\ Own(e) \subseteq ToSet(c.definitions) \cup ToSet(services)
<1>1. PICK loaded : loaded = Loaded(c, services)
  OBVIOUS
<1>2. /\ loaded \in Containers /\ loaded.overrideTokenIds = c.overrideTokenIds
      /\ ToSet(loaded.definitions) \subseteq ToSet(c.definitions) \cup ToSet(services)
  BY <1>1, LoadedFacts
<1>3. PICK r : r = RegisterParentAliases(loaded)
  OBVIOUS
<1>4. r \in Containers /\ r.definitions = loaded.definitions
      /\ r.overrideTokenIds = c.overrideTokenIds
  BY <1>2, <1>3, RegisterParentAliasesFacts
<1>5. PICK e : e = Compiled(c, services, overrides)
  OBVIOUS
<1>6. Grows(r, e, TokensOfOverrides(overrides))
  <2>1. Len(overrides) \in 0..Len(overrides)
    OBVIOUS
  <2> QED
    BY <1>1, <1>3, <1>5, <2>1, CompiledSteps
<1>7. SameServices(loaded, e)
  BY <1>4, <1>6 DEF Grows, SameServices
<1>8. Own(e) \subseteq ToSet(loaded.definitions)
  BY <1>2, <1>6, <1>7, SameOwn DEF Grows, Own
<1> QED
  BY <1>1, <1>2, <1>4, <1>5, <1>6, <1>7, <1>8 DEF Grows

\* An alias that neither a service nor an override accounts for.
LeftAlias(c, overrides) ==
    \E a \in ToSet(c.aliases) :
        /\ a.id.dir \notin OverridePrefixes
        /\ Children(c.definitions, a.id) = {}
        /\ ~\E o \in ToSet(overrides) : IdNamesService(a.id, o.token)

\* A factory that asks for what an earlier call replaced and this one has not yet.
LeftFactory(overrides) ==
    \E n \in DOMAIN overrides :
        /\ overrides[n].kind = "useFactory"
        /\ overrides[n].use \in Replaced(overrides, n..Len(overrides))
                                 \ Replaced(overrides, 1..n - 1)

LEMMA LeftFactoryIs ==
  ASSUME NEW overrides \in Seq(Overrides), ~LeftFactory(overrides),
         NEW n \in 1..Len(overrides), overrides[n].kind = "useFactory",
         NEW use, use = overrides[n].use, use \in TokensOfOverrides(overrides)
  PROVE  use \in Replaced(overrides, 1..n - 1)
<1>1. PICK m \in DOMAIN overrides : overrides[m].token = use
  BY DEF TokensOfOverrides, Replaced
<1>2. m \in 1..Len(overrides) /\ n \in DOMAIN overrides
  BY <1>1
<1>3. CASE m \in 1..n - 1
  BY <1>1, <1>3 DEF Replaced
<1>4. CASE m \notin 1..n - 1
  <2>1. m \in n..Len(overrides)
    BY <1>2, <1>4
  <2>2. use \in Replaced(overrides, n..Len(overrides))
    BY <1>1, <2>1 DEF Replaced
  <2> QED
    BY <1>2, <2>2 DEF LeftFactory
<1> QED
  BY <1>3, <1>4

LEMMA BeginsFirst ==
  ASSUME NEW loaded \in Containers, NEW r, r = RegisterParentAliases(loaded),
         loaded.aliases = <<>>, DOMAIN loaded.overrideTokenIds = {}
  PROVE  Begins(loaded, r, {})
<1>1. /\ r \in Containers /\ r.overrideTokenIds = loaded.overrideTokenIds
      /\ \A p : p # None /\ Children(loaded.definitions, p) = {} =>
            Entry(r.aliases, p) = Entry(loaded.aliases, p)
      /\ \A p : p # None /\ Children(loaded.definitions, p) # {} =>
            Entry(r.aliases, p) =
               [id |-> p, target |-> loaded.definitions[Max(Children(loaded.definitions, p))].id]
  BY RegisterParentAliasesFacts
<1>2. \A p : Entry(loaded.aliases, p) = None
  <2>1. ToSet(loaded.aliases) = {}
    BY DEF ToSet
  <2> QED
    BY <2>1 DEF Entry
<1>3. ASSUME NEW a, Entry(r.aliases, a) # None PROVE Children(loaded.definitions, a) # {}
  <2>1. a # None
    BY <1>1, <1>3, AliasKeys
  <2> QED
    BY <1>1, <1>2, <1>3, <2>1
<1> QED
  BY <1>1, <1>3 DEF Begins

LEMMA BeginsAgain ==
  ASSUME NEW loaded \in Containers, NEW r, r = RegisterParentAliases(loaded),
         NEW overrides \in Seq(Overrides),
         DOMAIN loaded.overrideTokenIds \subseteq TokensOfOverrides(overrides),
         NEW e, Grows(r, e, TokensOfOverrides(overrides)), ~LeftAlias(e, overrides)
  PROVE  Begins(loaded, r, TokensOfOverrides(overrides))
<1>1. /\ r \in Containers /\ r.overrideTokenIds = loaded.overrideTokenIds
      /\ r.definitions = loaded.definitions
      /\ \A p : p # None /\ Children(loaded.definitions, p) # {} =>
            Entry(r.aliases, p) =
               [id |-> p, target |-> loaded.definitions[Max(Children(loaded.definitions, p))].id]
  BY RegisterParentAliasesFacts
<1>2. e \in Containers /\ SameServices(r, e)
      /\ \A id : Entry(r.aliases, id) # None => Entry(e.aliases, id) # None
  BY DEF Grows
<1>3. ASSUME NEW a, Entry(r.aliases, a) # None, a.dir \notin OverridePrefixes,
             Children(loaded.definitions, a) = {}
      PROVE  \E u \in TokensOfOverrides(overrides) : IdNamesService(a, u)
  <2>1. a # None
    BY <1>1, <1>3, AliasKeys
  <2>2. Children(e.definitions, a) = {}
    BY <1>1, <1>2, <1>3, <2>1, SameChildren
  <2>3. PICK x \in ToSet(e.aliases) : x.id = a
    BY <1>2, <1>3, EntryGone
  <2>4. PICK o \in ToSet(overrides) : IdNamesService(a, o.token)
    BY <1>3, <2>2, <2>3 DEF LeftAlias
  <2>5. PICK n \in DOMAIN overrides : overrides[n] = o
    BY ToSetFacts DEF ToSet
  <2>6. o.token \in TokensOfOverrides(overrides)
    BY <2>5 DEF TokensOfOverrides, Replaced
  <2> QED
    BY <2>4, <2>6
<1> QED
  BY <1>1, <1>3 DEF Begins

LEMMA NamedFacts ==
  ASSUME NEW overrides \in Seq(Overrides), NEW t \in Tokens
  PROVE  /\ NamedBy(overrides, t) \in SUBSET Tokens
         /\ t \in NamedBy(overrides, t)
         /\ TokensOfOverrides(overrides) \subseteq NamedBy(overrides, t)
         /\ \A o \in ToSet(overrides) :
               /\ o \in Overrides /\ o.token \in NamedBy(overrides, t)
               /\ o.kind # "useValue" => o.use \in NamedBy(overrides, t)
<1>1. \A n \in DOMAIN overrides : overrides[n] \in Overrides /\ overrides[n] \in ToSet(overrides)
  BY DEF ToSet
<1>2. \A o \in ToSet(overrides) : o \in Overrides
  BY <1>1 DEF ToSet
<1>3. \A o \in ToSet(overrides) : o.token \in Tokens /\ (o.kind # "useValue" => o.use \in Tokens)
  <2> SUFFICES ASSUME NEW o \in ToSet(overrides)
               PROVE  o.token \in Tokens /\ (o.kind # "useValue" => o.use \in Tokens)
    OBVIOUS
  <2>1. o \in Overrides
    BY <1>2
  <2> QED
    BY <2>1, OverridesFacts DEF Classes
<1>4. NamedBy(overrides, t) \in SUBSET Tokens
  BY <1>3 DEF NamedBy
<1>5. TokensOfOverrides(overrides) \subseteq NamedBy(overrides, t)
  BY <1>1 DEF NamedBy, TokensOfOverrides, Replaced
<1> QED
  BY <1>2, <1>4, <1>5 DEF NamedBy

EndsCourse(e, overrides, tokens) ==
    \E before \in {{}, Replaced(overrides, DOMAIN overrides)} : \E loaded, f :
        /\ Course(loaded, overrides, tokens, before, f, Declared(e.definitions, overrides))
        /\ f[Len(overrides)] = e

\* What compile() makes of a container that an earlier call may have left.
LEMMA CompiledCourse ==
  ASSUME NEW c \in Containers, NEW services \in Seq(Definitions), NEW overrides \in Seq(Overrides),
         NEW e, e = Compiled(c, services, overrides), e.threw = FALSE,
         \A o \in ToSet(overrides) : o.kind = "useClass" =>
             \A d \in Own(e) : d.abstract => o.use # d.delivers,
         DOMAIN c.overrideTokenIds \subseteq TokensOfOverrides(overrides),
         ~LeftAlias(e, overrides),
         c = EmptyContainer \/ ~LeftFactory(overrides),
         NEW tokens \in SUBSET Tokens, Distinct(e, tokens),
         TokensOfOverrides(overrides) \subseteq tokens,
         \A o \in ToSet(overrides) : /\ o.token \in tokens
                                     /\ o.kind # "useValue" => o.use \in tokens
  PROVE  EndsCourse(e, overrides, tokens)
<1>1. PICK loaded : loaded = Loaded(c, services)
  OBVIOUS
<1>2. PICK T : T = TokensOfOverrides(overrides)
  OBVIOUS
<1>3. PICK N : N = Len(overrides) /\ N \in Nat
  OBVIOUS
<1>4. /\ loaded \in Containers /\ loaded.aliases = c.aliases
      /\ loaded.overrideTokenIds = c.overrideTokenIds
  BY <1>1, LoadedFacts
<1>5. PICK r : r = RegisterParentAliases(loaded)
  OBVIOUS
<1>6. r \in Containers /\ r.definitions = loaded.definitions
  BY <1>4, <1>5, RegisterParentAliasesFacts
<1>7. PICK f : /\ f[0] = r
               /\ \A n \in 1..N : f[n] = OverrideStep(f[n - 1], overrides[n])
               /\ \A n \in 0..N : Grows(r, f[n], T) /\ Grows(f[n], e, T)
               /\ e = f[N]
  BY <1>1, <1>2, <1>3, <1>5, CompiledSteps
<1>8. SameServices(loaded, e) /\ e \in Containers
  BY <1>1, CompiledFacts
<1>9. \A n \in 0..N : f[n] \in Containers /\ SameServices(loaded, f[n]) /\ f[n].threw = FALSE
      /\ \A id : Entry(f[n].aliases, id) # None => Entry(e.aliases, id) # None
  <2> SUFFICES ASSUME NEW n \in 0..N
      PROVE  f[n] \in Containers /\ SameServices(loaded, f[n]) /\ f[n].threw = FALSE
             /\ \A id : Entry(f[n].aliases, id) # None => Entry(e.aliases, id) # None
    OBVIOUS
  <2>1. Grows(r, f[n], T) /\ Grows(f[n], e, T)
    BY <1>7
  <2>2. SameServices(loaded, f[n])
    BY <1>6, <2>1 DEF Grows, SameServices
  <2> QED
    BY <2>1, <2>2 DEF Grows
<1>10. \A n \in 1..N : f[n] = ApplyOverride(f[n - 1], overrides[n])
  <2> SUFFICES ASSUME NEW n \in 1..N PROVE f[n] = ApplyOverride(f[n - 1], overrides[n])
    OBVIOUS
  <2>1. n - 1 \in 0..N
    BY <1>3
  <2>2. f[n - 1].threw = FALSE
    BY <1>9, <2>1
  <2> QED
    BY <1>7, <2>2 DEF OverrideStep
<1>11. PICK F : /\ F[0] = [t \in Tokens |-> DeclaredService(e.definitions, t)]
                /\ \A n \in 1..N : F[n] = DeclaredStep(F[n - 1], overrides[n])
                /\ Declared(e.definitions, overrides) = F
  BY <1>3, <1>8, DeclaredSteps
<1>12. F[0] = [t \in Tokens |-> DeclaredService(loaded.definitions, t)]
  <2>1. \A t \in Tokens : DeclaredService(loaded.definitions, t) = DeclaredService(e.definitions, t)
    BY <1>4, <1>8, SameDeclared
  <2> QED
    BY <1>11, <2>1
<1>13. Distinct(loaded, tokens)
  BY <1>4, <1>8, SameDistinct
<1>14. \A o \in ToSet(overrides) : Knows(loaded, tokens, o)
  <2> SUFFICES ASSUME NEW o \in ToSet(overrides) PROVE Knows(loaded, tokens, o)
    OBVIOUS
  <2>1. Own(loaded) = Own(e)
    BY <1>4, <1>8, SameOwn
  <2> QED
    BY <1>13, <2>1 DEF Knows
<1>15. PICK before \in {{}, T} :
          /\ Begins(loaded, r, before)
          /\ \A n \in 1..N : overrides[n].kind = "useFactory" =>
                overrides[n].use \notin before \ Replaced(overrides, 1..n - 1)
  <2>1. CASE c = EmptyContainer
    <3>1. c.aliases = <<>> /\ DOMAIN c.overrideTokenIds = {}
      BY <2>1 DEF EmptyContainer
    <3>2. Begins(loaded, r, {})
      BY <1>4, <1>5, <3>1, BeginsFirst
    <3> QED
      BY <3>2
  <2>2. CASE ~LeftFactory(overrides)
    <3>1. Grows(r, e, T)
      BY <1>3, <1>7
    <3>2. Begins(loaded, r, T)
      BY <1>2, <1>4, <1>5, <3>1, BeginsAgain
    <3>3. \A n \in 1..N : overrides[n].kind = "useFactory" =>
             overrides[n].use \notin T \ Replaced(overrides, 1..n - 1)
      BY <1>2, <1>3, <2>2, LeftFactoryIs
    <3> QED
      BY <3>2, <3>3
  <2> QED
    BY <2>1, <2>2
<1>16. before \subseteq tokens
  BY <1>2, <1>15
<1>17. Course(loaded, overrides, tokens, before, f, F)
  BY <1>3, <1>4, <1>7, <1>9, <1>10, <1>11, <1>12, <1>13, <1>14, <1>15, <1>16 DEF Course
<1>18. before \in {{}, Replaced(overrides, DOMAIN overrides)}
  BY <1>2, <1>15 DEF TokensOfOverrides
<1> QED
  BY <1>3, <1>7, <1>11, <1>17, <1>18 DEF EndsCourse

\* Every token with a name of its own resolves as it is declared.
LEMMA CompiledResolves ==
  ASSUME NEW c \in Containers, NEW services \in Seq(Definitions), NEW overrides \in Seq(Overrides),
         NEW e, e = Compiled(c, services, overrides), e.threw = FALSE,
         \A o \in ToSet(overrides) : o.kind = "useClass" =>
             \A d \in Own(e) : d.abstract => o.use # d.delivers,
         DOMAIN c.overrideTokenIds \subseteq TokensOfOverrides(overrides),
         ~LeftAlias(e, overrides),
         c = EmptyContainer \/ ~LeftFactory(overrides),
         NEW t \in Tokens, Unambiguous(e, overrides, t),
         NEW v, v = Declared(e.definitions, overrides)[Len(overrides)][t], Unaliased(e, v)
  PROVE  Resolves(e, overrides, t, v)
<1>1. PICK tokens : tokens = NamedBy(overrides, t)
  OBVIOUS
<1>2. /\ tokens \in SUBSET Tokens /\ t \in tokens
      /\ TokensOfOverrides(overrides) \subseteq tokens
      /\ \A o \in ToSet(overrides) : /\ o.token \in tokens
                                     /\ o.kind # "useValue" => o.use \in tokens
  BY <1>1, NamedFacts
<1>3. Distinct(e, tokens)
  BY <1>1, UnambiguousIsDistinct
<1>4. EndsCourse(e, overrides, tokens)
  BY <1>2, <1>3, CompiledCourse
<1> QED
  BY <1>2, <1>4, CourseResolves DEF EndsCourse

(***************************************************************************)
(* The containers of the kernels.                                            *)
(***************************************************************************)
LEMMA EmptyContainerFacts ==
  /\ EmptyContainer \in Containers /\ Own(EmptyContainer) = {}
  /\ DOMAIN EmptyContainer.overrideTokenIds = {}
<1>1. <<>> \in [{} -> KeyIds]
  OBVIOUS
<1>2. <<>> \in TokenIds
  BY <1>1 DEF TokenIds
<1>3. ToSet(<<>>) = {}
  BY DEF ToSet
<1> QED
  BY <1>2, <1>3 DEF EmptyContainer, Containers, Unique, Own

\* What getService() and the constructors get of a container after n calls.
Settled(c, overrides, n) ==
    ~LeftAlias(c, overrides) /\ ~(n > 1 /\ LeftFactory(overrides)) =>
        \A t \in Tokens :
            LET v == Declared(c.definitions, overrides)[Len(overrides)][t]
            IN Unambiguous(c, overrides, t) /\ Unaliased(c, v) => Resolves(c, overrides, t, v)

Replaceable(k, services) ==
    \A d \in services : d.abstract =>
        \A request \in Requests[k] : \A o \in ToSet(request.overrides) :
            o.kind = "useClass" => o.use # d.delivers

\* A kernel with container c, the options opts of its instance, n calls and phase
\* p: only the overrides of the instance are in the container, which is empty
\* until the first call has loaded services.
Sound(k, c, opts, n, p) ==
    /\ c \in Containers
    /\ Replaceable(k, Own(c))
    /\ opts = None \/ n = 0 => c = EmptyContainer
    /\ opts # None =>
          /\ \E request \in Requests[k] : opts.overrides = request.overrides
          /\ DOMAIN c.overrideTokenIds \subseteq TokensOfOverrides(opts.overrides)
    /\ p = "loading" /\ n <= 1 => c = EmptyContainer
    /\ p = "compiling" => Settled(c, opts.overrides, n)

AllSound ==
    /\ sources \in Catalogues
    /\ servicesYaml \in Catalogues \cup Manifests
    /\ DOMAIN container = Kernels
    /\ \A k \in Kernels : Sound(k, container[k], options[k], calls[k], phase[k])

LEMMA CompiledSettled ==
  ASSUME NEW k \in Kernels, NEW c \in Containers, Replaceable(k, Own(c)),
         NEW services \in Catalogues \cup (Manifests \ {None}),
         NEW request \in Requests[k], NEW overrides, overrides = request.overrides,
         DOMAIN c.overrideTokenIds \subseteq TokensOfOverrides(overrides),
         NEW n \in Nat, n <= 1 => c = EmptyContainer,
         NEW e, e = Compiled(c, services, overrides)
  PROVE  /\ e \in Containers /\ Replaceable(k, Own(e))
         /\ DOMAIN e.overrideTokenIds \subseteq TokensOfOverrides(overrides)
         /\ ~e.threw => Settled(e, overrides, n)
<1>1. overrides \in Seq(Overrides)
  BY OverridesAssumption
<1>2. services \in Seq(Definitions) /\ Replaceable(k, ToSet(services))
  BY ServicesAssumption DEF Replaceable
<1>3. /\ e \in Containers
      /\ DOMAIN e.overrideTokenIds \subseteq TokensOfOverrides(overrides)
      /\ Own(e) \subseteq ToSet(c.definitions) \cup ToSet(services)
  BY <1>1, <1>2, CompiledFacts
<1>4. Own(e) \subseteq Own(c) \cup ToSet(services)
  BY <1>3 DEF Own
<1>5. Replaceable(k, Own(e))
  BY <1>2, <1>4 DEF Replaceable
<1>6. \A o \in ToSet(overrides) : o.kind = "useClass" =>
         \A d \in Own(e) : d.abstract => o.use # d.delivers
  BY <1>5 DEF Replaceable
<1>7. ASSUME ~e.threw PROVE Settled(e, overrides, n)
  <2>1. e.threw = FALSE
    BY <1>3, <1>7, ContainerFacts
  <2>2. SUFFICES ASSUME ~LeftAlias(e, overrides), ~(n > 1 /\ LeftFactory(overrides)),
                        NEW t \in Tokens, Unambiguous(e, overrides, t),
                        NEW v, v = Declared(e.definitions, overrides)[Len(overrides)][t],
                        Unaliased(e, v)
                 PROVE  Resolves(e, overrides, t, v)
    BY DEF Settled
  <2>3. c = EmptyContainer \/ ~LeftFactory(overrides)
    BY <2>2
  <2> QED
    BY <1>1, <1>2, <1>6, <2>1, <2>2, <2>3, CompiledResolves
<1> QED
  BY <1>3, <1>5, <1>7

LEMMA InitSound == Init => AllSound
<1> SUFFICES ASSUME Init PROVE AllSound
  OBVIOUS
<1>1. /\ sources \in Catalogues /\ servicesYaml \in Manifests
      /\ phase = [k \in Kernels |-> "none"]
      /\ options = [k \in Kernels |-> None]
      /\ container = [k \in Kernels |-> EmptyContainer]
      /\ calls = [k \in Kernels |-> 0]
  BY DEF Init
<1>2. ASSUME NEW k \in Kernels PROVE Sound(k, EmptyContainer, None, 0, "none")
  BY EmptyContainerFacts DEF Sound, Replaceable
<1> QED
  BY <1>1, <1>2 DEF AllSound

\* A kernel has a new instance, of the application or of its first call.
LEMMA MadeSound ==
  ASSUME NEW k \in Kernels, NEW request \in Requests[k], NEW n, NEW p \in {"none", "loading"}
  PROVE  Sound(k, EmptyContainer, Resolve(request), n, p)
<1>1. Resolve(request) # None /\ Resolve(request).overrides = request.overrides
  BY ResolveIsThere DEF Resolve
<1> QED
  BY <1>1, EmptyContainerFacts DEF Sound, Replaceable

LEMMA MakeContainerSound ==
  ASSUME IInv, AllSound, NEW k \in Kernels, NEW request \in Requests[k],
         NEW configured \in BOOLEAN, MakeContainer(k, request, configured)
  PROVE  AllSound'
<1>1. /\ phase[k] = "none" /\ options[k] = None
      /\ options' = [options EXCEPT ![k] = Resolve(request)]
      /\ UNCHANGED <<sources, servicesYaml, container, calls, phase>>
  BY DEF MakeContainer
<1>2. DOMAIN options = Kernels
  BY DEF IInv, TypeOK
<1>3. \A j \in Kernels : Sound(j, container[j], options[j], calls[j], phase[j])
  BY DEF AllSound
<1>4. container[k] = EmptyContainer
  BY <1>1, <1>3 DEF Sound
<1>5. Sound(k, container[k], options'[k], calls[k], phase[k])
  BY <1>1, <1>2, <1>4, MadeSound
<1>6. \A j \in Kernels \ {k} : options'[j] = options[j]
  BY <1>1, <1>2
<1>7. \A j \in Kernels : Sound(j, container[j], options'[j], calls[j], phase[j])
  BY <1>3, <1>5, <1>6
<1> QED
  BY <1>1, <1>7 DEF AllSound

LEMMA StartSound ==
  ASSUME IInv, AllSound, NEW k \in Kernels, NEW request \in Requests[k], Start(k, request)
  PROVE  AllSound'
<1>1. /\ calls' = [calls EXCEPT ![k] = @ + 1]
      /\ phase' = [phase EXCEPT ![k] = "loading"]
      /\ UNCHANGED <<sources, servicesYaml, container>>
  BY DEF Start, Begin
<1>2. DOMAIN phase = Kernels /\ DOMAIN options = Kernels /\ calls \in [Kernels -> Nat]
  BY DEF IInv, TypeOK
<1>3. \A j \in Kernels \ {k} : options'[j] = options[j] /\ calls'[j] = calls[j] /\ phase'[j] = phase[j]
  BY <1>1, <1>2 DEF Start
<1>4. Sound(k, container[k], options[k], calls[k], phase[k])
  BY DEF AllSound
<1>5. Sound(k, container[k], options'[k], calls'[k], phase'[k])
  <2>1. calls'[k] = calls[k] + 1 /\ phase'[k] = "loading" /\ calls[k] \in Nat
    BY <1>1, <1>2
  <2>2. CASE options[k] = None
    <3>1. options'[k] = Resolve(request)
      BY <1>2, <2>2 DEF Start
    <3>2. container[k] = EmptyContainer
      BY <1>4, <2>2 DEF Sound
    <3> QED
      BY <2>1, <3>1, <3>2, MadeSound
  <2>3. CASE options[k] # None
    <3>1. options'[k] = options[k]
      BY <2>3 DEF Start
    <3>2. calls'[k] <= 1 => container[k] = EmptyContainer
      BY <1>4, <2>1 DEF Sound
    <3>3. calls'[k] # 0
      BY <2>1
    <3> QED
      BY <1>4, <2>1, <2>3, <3>1, <3>2, <3>3 DEF Sound
  <2> QED
    BY <2>2, <2>3
<1>6. \A j \in Kernels : Sound(j, container[j], options'[j], calls'[j], phase'[j])
  BY <1>3, <1>5 DEF AllSound
<1> QED
  BY <1>1, <1>6 DEF AllSound

LEMMA LoadServicesSound ==
  ASSUME IInv, AllSound, NEW k \in Kernels, LoadServices(k)
  PROVE  AllSound'
<1>1. PICK loaded : loaded = IF options[k].containerBuild THEN sources ELSE servicesYaml
  OBVIOUS
<1>2. PICK e : e = Compiled(container[k], loaded, options[k].overrides)
  OBVIOUS
<1>3. /\ phase[k] = "loading" /\ servicesYaml' = loaded
      /\ IF loaded = None THEN UNCHANGED container ELSE container' = [container EXCEPT ![k] = e]
      /\ phase' = [phase EXCEPT ![k] =
            IF loaded = None \/ e.threw THEN "failed" ELSE "compiling"]
      /\ UNCHANGED <<sources, options, calls>>
  BY <1>1, <1>2 DEF LoadServices
<1>4. loaded \in Catalogues \cup Manifests
  BY <1>1 DEF AllSound
<1>5. DOMAIN phase = Kernels /\ DOMAIN container = Kernels /\ calls[k] \in Nat
  BY DEF IInv, TypeOK, AllSound
<1>6. Sound(k, container[k], options[k], calls[k], phase[k])
  BY DEF AllSound
<1>7. options[k] # None /\ calls[k] # 0
  BY <1>3, <1>5 DEF IInv, StartedOnce
<1>8. Sound(k, container'[k], options[k], calls[k], phase'[k])
  <2>1. CASE loaded = None
    <3>1. container'[k] = container[k] /\ phase'[k] = "failed"
      BY <1>3, <1>5, <2>1
    <3> QED
      BY <1>6, <3>1 DEF Sound
  <2>2. CASE loaded # None
    <3>1. container'[k] = e /\ phase'[k] = (IF e.threw THEN "failed" ELSE "compiling")
      BY <1>3, <1>5, <2>2
    <3>2. PICK request \in Requests[k] : options[k].overrides = request.overrides
      BY <1>6, <1>7 DEF Sound
    <3>3. /\ container[k] \in Containers /\ Replaceable(k, Own(container[k]))
          /\ DOMAIN container[k].overrideTokenIds \subseteq TokensOfOverrides(request.overrides)
          /\ calls[k] <= 1 => container[k] = EmptyContainer
      BY <1>3, <1>6, <1>7, <3>2 DEF Sound
    <3>4. loaded \in Catalogues \cup (Manifests \ {None})
      BY <1>4, <2>2
    <3>5. e = Compiled(container[k], loaded, request.overrides)
      BY <1>2, <3>2
    <3>6. /\ e \in Containers /\ Replaceable(k, Own(e))
          /\ DOMAIN e.overrideTokenIds \subseteq TokensOfOverrides(request.overrides)
          /\ ~e.threw => Settled(e, request.overrides, calls[k])
      BY <1>5, <3>3, <3>4, <3>5, CompiledSettled
    <3> QED
      BY <1>7, <3>1, <3>2, <3>6 DEF Sound
  <2> QED
    BY <2>1, <2>2
<1>9. \A j \in Kernels \ {k} : container'[j] = container[j] /\ phase'[j] = phase[j]
  BY <1>3, <1>5
<1>10. DOMAIN container' = Kernels
  BY <1>3, <1>5
<1>11. \A j \in Kernels : Sound(j, container'[j], options[j], calls[j], phase'[j])
  BY <1>8, <1>9 DEF AllSound
<1> QED
  BY <1>3, <1>4, <1>10, <1>11 DEF AllSound

\* A kernel that is constructed, or whose compile() settles or fails early.
LEMMA PhaseSound ==
  ASSUME IInv, AllSound, NEW k \in Kernels, NEW p \in {"constructed", "ready", "failed"},
         phase' = [phase EXCEPT ![k] = p],
         UNCHANGED <<sources, servicesYaml, options, container, calls>>
  PROVE  AllSound'
<1>1. DOMAIN phase = Kernels
  BY DEF IInv, TypeOK
<1>2. \A j \in Kernels : phase'[j] = phase[j] \/ phase'[j] \in {"constructed", "ready", "failed"}
  BY <1>1
<1>3. \A j \in Kernels : Sound(j, container[j], options[j], calls[j], phase'[j])
  BY <1>2 DEF AllSound, Sound
<1> QED
  BY <1>3 DEF AllSound

LEMMA LoadFailsSound ==
  ASSUME IInv, AllSound, NEW k \in Kernels, LoadFails(k)
  PROVE  AllSound'
<1>1. /\ phase' = [phase EXCEPT ![k] = "failed"]
      /\ servicesYaml' \in {servicesYaml, sources}
      /\ UNCHANGED <<sources, options, container, calls>>
  BY DEF LoadFails
<1>2. DOMAIN phase = Kernels
  BY DEF IInv, TypeOK
<1>3. \A j \in Kernels : phase'[j] = phase[j] \/ phase'[j] = "failed"
  BY <1>1, <1>2
<1>4. \A j \in Kernels : Sound(j, container[j], options[j], calls[j], phase'[j])
  BY <1>3 DEF AllSound, Sound
<1> QED
  BY <1>1, <1>4 DEF AllSound

LEMMA NextSound == IInv /\ AllSound /\ [Next]_vars => AllSound'
<1> SUFFICES ASSUME IInv, AllSound, [Next]_vars PROVE AllSound'
  OBVIOUS
<1>1. CASE LoadEnvironment \/ UNCHANGED vars
  BY <1>1 DEF LoadEnvironment, vars, diVars, AllSound
<1>2. CASE \E k \in Kernels : \E request \in Requests[k], configured \in BOOLEAN :
              MakeContainer(k, request, configured)
  BY <1>2, MakeContainerSound
<1>3. CASE \E k \in Kernels : Construct(k)
  BY <1>3, PhaseSound DEF Construct
<1>4. CASE \E k \in Kernels : \E request \in Requests[k] : Start(k, request)
  BY <1>4, StartSound
<1>5. CASE \E k \in Kernels : LoadServices(k) \/ LoadFails(k)
  BY <1>5, LoadServicesSound, LoadFailsSound
<1>6. CASE \E k \in Kernels : CompileSettles(k)
  BY <1>6, PhaseSound DEF CompileSettles
<1> QED
  BY <1>1, <1>2, <1>3, <1>4, <1>5, <1>6 DEF Next

LEMMA SoundResolves == AllSound => ResolvesAsDeclared
<1> SUFFICES ASSUME AllSound, NEW k \in Kernels, phase[k] = "compiling", ~Leftover(k)
             PROVE  LET c == container[k]
                        overrides == options[k].overrides
                        declared == Declared(c.definitions, overrides)[Len(overrides)]
                    IN \A t \in Tokens :
                          /\ Unambiguous(c, overrides, t)
                          /\ Unaliased(c, declared[t])
                          => Resolves(c, overrides, t, declared[t])
  BY DEF ResolvesAsDeclared, Resolves, Unaliased
<1>1. Settled(container[k], options[k].overrides, calls[k])
  BY DEF AllSound, Sound
<1>2. /\ ~LeftAlias(container[k], options[k].overrides)
      /\ ~(calls[k] > 1 /\ LeftFactory(options[k].overrides))
  BY DEF Leftover, LeftAlias, LeftFactory
<1> QED
  BY <1>1, <1>2 DEF Settled

\* getService() and the constructors get what the services and the overrides of a
\* kernel declare, for any services, overrides, tokens and number of calls.
THEOREM ResolvesAsDeclaredHolds == Spec => []ResolvesAsDeclared
<1>1. Init => IInv /\ AllSound
  BY InitIInv, InitSound
<1>2. IInv /\ AllSound /\ [Next]_vars => (IInv /\ AllSound)'
  BY NextIInv, NextSound
<1>3. AllSound => ResolvesAsDeclared
  BY SoundResolves
<1> QED
  BY <1>1, <1>2, <1>3, PTL DEF Spec

================================================================================
