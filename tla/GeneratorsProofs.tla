--------------------------- MODULE GeneratorsProofs ---------------------------
(***************************************************************************)
(* What holds of Generators for whatever values a query gives: the edges   *)
(* that TLC tries are not the only ones.                                   *)
(*                                                                         *)
(* An answer depends on its request alone, so the invariant only says that *)
(* it is an answer; the work is one lemma per endpoint, and what they have *)
(* in common: binding, the first failing check, the defaults, the echo.    *)
(***************************************************************************)
EXTENDS Generators, WellFoundedInduction, TLAPS

(* The queries of an endpoint.                                             *)
Queries(endpoint) ==
  CASE endpoint = "coin"  -> {<<>>}
    [] endpoint = "color" -> [format : Given("format"), count : Given("count")]
    [] endpoint = "coordinates" ->
         [count : Given("count"), land_only : Given("land_only")]
    [] endpoint = "dice"  -> [sides : Given("sides"), count : Given("count")]
    [] endpoint = "lorem" ->
         [paragraphs : Given("paragraphs"), sentences : Given("sentences"),
          count : Given("count")]
    [] endpoint = "number" ->
         [min : Given("min"), max : Given("max"), count : Given("count"),
          float : Given("float")]
    [] endpoint = "password" ->
         [length : Given("length"), uppercase : Given("uppercase"),
          lowercase : Given("lowercase"), digits : Given("digits"),
          symbols : Given("symbols"), count : Given("count")]
    [] endpoint = "ssh-key" ->
         [type : Given("type"), bits : Given("bits"),
          comment : Given("comment"), count : Given("count")]
    [] endpoint = "uuid"  -> [count : Given("count"), format : Given("format")]
    [] endpoint = "words" ->
         [style : Given("style"), words : Given("words"),
          separator : Given("separator"), capitalize : Given("capitalize"),
          count : Given("count")]

Endpoints == {"coin", "color", "coordinates", "dice", "lorem", "number",
              "password", "ssh-key", "uuid", "words"}

(* The response is an answer to the request.                               *)
AnswerGiven ==
  Answered => /\ request.endpoint \in Endpoints
              /\ request.query \in Queries(request.endpoint)
              /\ response \in Answers(request.endpoint, request.query)

(* Answer a to query q is the one of the contract.                         *)
Matches(endpoint, q, a) ==
  LET faults == Faults(endpoint, q)
  IN  IF faults = {} THEN a.status = 200
      ELSE a.status = 400 /\ a.blame \in faults

(* It has as many results as were asked for.                               *)
CountAsked(q) == IF q.count = <<>> THEN 1 ELSE q.count[1]

Shaped(q, a) == /\ a.number = CountAsked(q)
                /\ a.single <=> CountAsked(q) = 1

(* The query that repeats the echo.                                        *)
Echo(params) == [n \in DOMAIN params |-> <<params[n]>>]

Kept(endpoint, q, a) ==
  /\ Matches(endpoint, q, a)
  /\ a.status = 200 =>
       /\ Shaped(q, a)
       /\ a \in Answers(endpoint, Echo(a.params))

-----------------------------------------------------------------------------
(* Sequences of checks.                                                    *)

(* A set of numbers has a least one.                                       *)
LEMMA LeastNumber ==
  ASSUME NEW T, T \subseteq Nat, T # {}
  PROVE  \E x \in T : \A y \in T : x <= y
<1> DEFINE R == OpToRel(<, Nat)
<1>1. IsWellFoundedOn(R, Nat)
  BY NatLessThanWellFounded
<1>2. \A x, y \in Nat : <<x, y>> \in R <=> x < y
  BY DEF OpToRel
<1> HIDE DEF R
<1>3. PICK x \in T : \A y \in T : ~(<<y, x>> \in R)
  BY <1>1, WFMin, Zenon
<1>4. \A y \in T : ~(y < x) /\ x \in Nat /\ y \in Nat
  BY <1>2, <1>3
<1>5. \A y \in T : x <= y
  BY <1>4
<1> QED
  BY <1>5

(* FirstFailing names a check that fails, if one does.                     *)
LEMMA FirstFailingIs ==
  ASSUME NEW checks, DOMAIN checks \subseteq Nat
  PROVE  \/ /\ \A i \in DOMAIN checks : checks[i].holds
            /\ FirstFailing(checks) = "none"
         \/ \E i \in DOMAIN checks : /\ ~checks[i].holds
                                     /\ FirstFailing(checks) = checks[i].of
<1> DEFINE failing == {i \in DOMAIN checks : ~checks[i].holds}
<1>1. CASE failing = {}
  BY <1>1 DEF FirstFailing
<1>2. CASE failing # {}
  <2>1. \E i \in failing : \A j \in failing : i <= j
    BY <1>2, LeastNumber
  <2> DEFINE first == CHOOSE i \in failing : \A j \in failing : i <= j
  <2>2. first \in failing
    BY <2>1
  <2>3. FirstFailing(checks) = checks[first].of
    BY <1>2 DEF FirstFailing
  <2> HIDE DEF first
  <2> QED
    BY <2>2, <2>3
<1> QED
  BY <1>1, <1>2

-----------------------------------------------------------------------------
(* Binding and defaults.                                                   *)

(* A query gives a parameter no value, one of its inputs, or two values.   *)
LEMMA GivenIs ==
  ASSUME NEW n, NEW g \in Given(n)
  PROVE  \/ g = <<>> /\ Len(g) = 0
         \/ \E v \in Inputs[n] : g = <<v>> /\ g # <<>> /\ g[1] = v /\ Len(g) = 1
         \/ g # <<>> /\ Len(g) = 2
BY DEF Given

(* Query q gives each of its parameters at most one value.                 *)
Single(q) ==
  \A n \in DOMAIN q : \/ q[n] = <<>>
                      \/ \E v \in Inputs[n] : q[n] = <<v>>

(* The query has what the wrapper binds.                                   *)
Binds(wrapper, q) ==
  /\ DOMAIN wrapper \subseteq Nat
  /\ DOMAIN q = {wrapper[i] : i \in DOMAIN wrapper}
  /\ "none" \notin DOMAIN q

(* A parameter with two values is refused, and nothing else is.            *)
LEMMA BindIs ==
  ASSUME NEW wrapper, NEW q, Binds(wrapper, q),
         \A n \in DOMAIN q : q[n] \in Given(n)
  PROVE  \/ Bind(wrapper, q) = "none" /\ Single(q)
         \/ /\ Bind(wrapper, q) # "none"
            /\ Bind(wrapper, q) \in DOMAIN q
            /\ Len(q[Bind(wrapper, q)]) > 1
<1> DEFINE checks == [i \in DOMAIN wrapper |->
                        Check(wrapper[i], Len(q[wrapper[i]]) <= 1)]
<1>1. Bind(wrapper, q) = FirstFailing(checks)
  BY DEF Bind
<1>2. \A i \in DOMAIN wrapper : /\ checks[i].of = wrapper[i]
                                /\ checks[i].holds <=> Len(q[wrapper[i]]) <= 1
  BY DEF Check
<1>3. \A n \in DOMAIN q : \/ Len(q[n]) = 2
                          \/ /\ Len(q[n]) \in {0, 1}
                             /\ \/ q[n] = <<>>
                                \/ \E v \in Inputs[n] : q[n] = <<v>>
  BY GivenIs
<1>4. DOMAIN checks = DOMAIN wrapper
  OBVIOUS
<1> HIDE DEF checks
<1>5. CASE (\A i \in DOMAIN checks : checks[i].holds) /\ FirstFailing(checks) = "none"
  <2>1. \A n \in DOMAIN q : Len(q[n]) <= 1
    BY <1>2, <1>4, <1>5 DEF Binds
  <2>2. Single(q)
    BY <1>3, <2>1 DEF Single
  <2> QED
    BY <1>1, <1>5, <2>2
<1>6. CASE \E i \in DOMAIN checks : /\ ~checks[i].holds
                                    /\ FirstFailing(checks) = checks[i].of
  BY <1>1, <1>2, <1>3, <1>4, <1>6 DEF Binds
<1>7. DOMAIN checks \subseteq Nat
  BY <1>4 DEF Binds
<1> QED
  BY <1>5, <1>6, <1>7, FirstFailingIs

(* What cannot be bound is refused as the contract says.                   *)
LEMMA Misbound ==
  ASSUME NEW endpoint, NEW q, NEW n \in DOMAIN q, Len(q[n]) > 1
  PROVE  Kept(endpoint, q, WriteError(n))
<1>1. n \in Faults(endpoint, q) /\ Faults(endpoint, q) # {}
  BY DEF Faults
<1> QED
  BY <1>1 DEF Kept, Matches, WriteError

(* The echo can be bound.                                                  *)
LEMMA EchoBinds ==
  ASSUME NEW wrapper, NEW params, Binds(wrapper, params)
  PROVE  Bind(wrapper, Echo(params)) = "none"
<1> DEFINE checks == [i \in DOMAIN wrapper |->
                        Check(wrapper[i], Len(Echo(params)[wrapper[i]]) <= 1)]
<1>1. \A i \in DOMAIN wrapper : Echo(params)[wrapper[i]] = <<params[wrapper[i]]>>
  BY DEF Echo, Binds
<1>2. \A i \in DOMAIN checks : checks[i].holds
  <2>1. \A i \in DOMAIN wrapper : Len(Echo(params)[wrapper[i]]) = 1
    BY <1>1
  <2>2. \A i \in DOMAIN wrapper : checks[i].holds <=> Len(Echo(params)[wrapper[i]]) <= 1
    BY DEF Check
  <2>3. DOMAIN checks = DOMAIN wrapper
    OBVIOUS
  <2>4. \A n : n = 1 => n <= 1
    OBVIOUS
  <2> HIDE DEF checks
  <2> QED
    BY <2>1, <2>2, <2>3, <2>4, Zenon
<1>3. DOMAIN checks \subseteq Nat
  BY DEF Binds
<1>4. Bind(wrapper, Echo(params)) = FirstFailing(checks)
  BY DEF Bind
<1> HIDE DEF checks
<1> QED
  BY <1>2, <1>3, <1>4, FirstFailingIs

-----------------------------------------------------------------------------
(* Handlers.                                                               *)

(* The response has the results and the echo, and is a list unless one     *)
(* result was asked for.                                                   *)
Fulfilled(a, result, params) ==
  /\ a.status = 200
  /\ a.params = params
  /\ a.result = result
  /\ a.number = params.count
  /\ a.single <=> params.count = 1

(* A handler blames a failing check, or fulfils.                           *)
LEMMA ServeIs ==
  ASSUME NEW checks, NEW result, NEW params,
         DOMAIN checks \subseteq Nat,
         \A i \in DOMAIN checks : checks[i].of # "none"
  PROVE  \/ /\ \A i \in DOMAIN checks : checks[i].holds
            /\ Fulfilled(Serve(checks, result, params), result, params)
         \/ \E i \in DOMAIN checks :
              ~checks[i].holds /\ Serve(checks, result, params) = WriteError(checks[i].of)
<1>1. CASE (\A i \in DOMAIN checks : checks[i].holds) /\ FirstFailing(checks) = "none"
  <2>1. Serve(checks, result, params) = WriteResults(params.count, result, params)
    BY <1>1 DEF Serve
  <2> QED
    BY <1>1, <2>1 DEF WriteResults, WriteSingle, WriteMultiple, Fulfilled
<1>2. CASE \E i \in DOMAIN checks : /\ ~checks[i].holds
                                    /\ FirstFailing(checks) = checks[i].of
  BY <1>2 DEF Serve
<1> QED
  BY <1>1, <1>2, FirstFailingIs

(* Whether query q gives parameter n no value, or a legal one.             *)
Fine(endpoint, q, n) == q[n] = <<>> \/ Legal(endpoint, q, n, q[n][1])

(* What can be at fault in a query that can be bound: one parameter, the   *)
(* two bounds together, or the four sets together.                         *)
Illegal(endpoint, q) == {n \in DOMAIN q : ~Fine(endpoint, q, n)}

BoundsFault(endpoint, q) ==
  {f \in {"bounds"} : endpoint = "number" /\ ~BoundsAgree(q)}

SetsFault(endpoint, q) ==
  {f \in {"sets"} : endpoint = "password" /\ \A set \in Sets : q[set] = <<FALSE>>}

(* The faults of such a query are these.                                   *)
LEMMA AllFaultsAre ==
  ASSUME NEW endpoint, NEW q, Single(q)
  PROVE  Faults(endpoint, q) = Illegal(endpoint, q) \cup BoundsFault(endpoint, q)
                                 \cup SetsFault(endpoint, q)
<1>1. \A n \in DOMAIN q : ~(Len(q[n]) > 1)
  <2> TAKE n \in DOMAIN q
  <2>1. CASE q[n] = <<>>
    BY <2>1
  <2>2. CASE \E v \in Inputs[n] : q[n] = <<v>>
    BY <2>2
  <2> QED
    BY <2>1, <2>2 DEF Single
<1>2. {n \in DOMAIN q : Len(q[n]) > 1} = {}
  BY <1>1
<1>3. {n \in DOMAIN q : q[n] # <<>> /\ ~Legal(endpoint, q, n, q[n][1])}
        = Illegal(endpoint, q)
  BY DEF Fine, Illegal
<1> QED
  BY <1>2, <1>3, Zenon DEF Faults, BoundsFault, SetsFault

(* Most endpoints look at one parameter at a time.                         *)
LEMMA FaultsAre ==
  ASSUME NEW endpoint, NEW q, Single(q), endpoint \notin {"number", "password"}
  PROVE  Faults(endpoint, q) = {n \in DOMAIN q : ~Fine(endpoint, q, n)}
<1>1. BoundsFault(endpoint, q) = {} /\ SetsFault(endpoint, q) = {}
  BY DEF BoundsFault, SetsFault
<1> QED
  BY <1>1, AllFaultsAre DEF Illegal

(* The parameter n of a query that can be bound.                           *)
LEMMA ParameterIs ==
  ASSUME NEW endpoint, NEW q, Single(q), NEW n \in DOMAIN q, NEW default
  PROVE  \/ /\ q[n] = <<>>
            /\ DefaultPtr(q[n], default) = default
            /\ Fine(endpoint, q, n)
         \/ \E v \in Inputs[n] :
              /\ q[n] = <<v>>
              /\ q[n] # <<>>
              /\ DefaultPtr(q[n], default) = v
              /\ Fine(endpoint, q, n) <=> Legal(endpoint, q, n, v)
<1>1. CASE q[n] = <<>>
  BY <1>1 DEF DefaultPtr, Fine
<1>2. CASE \E v \in Inputs[n] : q[n] = <<v>>
  <2>1. PICK v \in Inputs[n] : q[n] = <<v>>
    BY <1>2
  <2>2. q[n] # <<>> /\ q[n][1] = v
    BY <2>1
  <2> QED
    BY <2>1, <2>2 DEF DefaultPtr, Fine
<1> QED
  BY <1>1, <1>2 DEF Single

(* Its value is the default, or one of its inputs.                         *)
LEMMA ValueIs ==
  ASSUME NEW q, Single(q), NEW n \in DOMAIN q, NEW default
  PROVE  \/ DefaultPtr(q[n], default) = default
         \/ DefaultPtr(q[n], default) \in Inputs[n]
BY DEF Single, DefaultPtr

(* A flag of a query that can be bound.                                    *)
LEMMA FlagIs ==
  ASSUME NEW q, Single(q), NEW n \in DOMAIN q, Inputs[n] \subseteq BOOLEAN
  PROVE  /\ DefaultPtr(q[n], TRUE) <=> q[n] # <<FALSE>>
         /\ DefaultPtr(q[n], FALSE) <=> q[n] = <<TRUE>>
         /\ DefaultPtr(q[n], FALSE) \in BOOLEAN
<1>1. CASE q[n] = <<>>
  BY <1>1 DEF DefaultPtr
<1>2. CASE \E v \in Inputs[n] : q[n] = <<v>>
  <2>1. PICK v \in Inputs[n] : q[n] = <<v>>
    BY <1>2
  <2>2. /\ DefaultPtr(q[n], TRUE) = v
        /\ DefaultPtr(q[n], FALSE) = v
        /\ v \in BOOLEAN
    BY <2>1 DEF DefaultPtr
  <2>3. \A w : q[n] = <<w>> => v = w
    <3>1. q[n][1] = v
      BY <2>1
    <3>2. \A w : <<w>>[1] = w
      OBVIOUS
    <3> QED
      BY <3>1, <3>2, Zenon
  <2>4. \A w : q[n] = <<w>> <=> v = w
    BY <2>1, <2>3, Zenon
  <2>5. CASE v = TRUE
    BY <2>2, <2>4, <2>5, Zenon
  <2>6. CASE v = FALSE
    <3>1. q[n] = <<FALSE>>
      BY <2>4, <2>6, Zenon
    <3>2. q[n] # <<TRUE>>
      <4>1. ~(v = TRUE)
        BY <2>6
      <4> QED
        BY <2>4, <4>1, Zenon
    <3> QED
      BY <2>2, <2>6, <3>1, <3>2
  <2> QED
    BY <2>2, <2>5, <2>6
<1> QED
  BY <1>1, <1>2 DEF Single

(* The number of results is checked as the contract says.                  *)
LEMMA CountFine ==
  ASSUME NEW endpoint, NEW q, Single(q), "count" \in DOMAIN q
  PROVE  /\ DefaultPtr(q.count, 1) = CountAsked(q)
         /\ DefaultPtr(q.count, 1) \in 1..MostResults(endpoint)
              <=> Fine(endpoint, q, "count")
<1>1. DefaultPtr(q.count, 1) = CountAsked(q)
  BY DEF DefaultPtr, CountAsked
<1>2. MostResults(endpoint) \in {5, 10, 100}
  BY DEF MostResults
<1>3. \A v : Legal(endpoint, q, "count", v) <=> (1 <= v /\ v <= MostResults(endpoint))
  BY DEF Legal
<1>4. Inputs["count"] \subseteq Int
  BY GeneratorsAssumption
<1>5. CASE DefaultPtr(q.count, 1) = 1 /\ Fine(endpoint, q, "count")
  BY <1>1, <1>2, <1>5
<1>6. CASE \E v \in Inputs["count"] :
             /\ DefaultPtr(q.count, 1) = v
             /\ Fine(endpoint, q, "count") <=> Legal(endpoint, q, "count", v)
  BY <1>1, <1>2, <1>3, <1>4, <1>6
<1> QED
  BY <1>5, <1>6, ParameterIs

(* The checks fail for the faults of the query, and for nothing else.      *)
Blames(endpoint, q, checks) ==
  /\ \A i \in DOMAIN checks : ~checks[i].holds => checks[i].of \in Faults(endpoint, q)
  /\ (\A i \in DOMAIN checks : checks[i].holds) => Faults(endpoint, q) = {}

(* A handler that binds, checks and serves keeps the contract.             *)
LEMMA HandlerKeeps ==
  ASSUME NEW endpoint, NEW wrapper, NEW q, NEW a,
         NEW checks, NEW result, NEW params,
         Binds(wrapper, q), \A n \in DOMAIN q : q[n] \in Given(n),
         Binds(wrapper, params),
         Bind(wrapper, q) # "none" => a = WriteError(Bind(wrapper, q)),
         Bind(wrapper, q) = "none" => a = Serve(checks, result, params),
         DOMAIN checks \subseteq Nat,
         \A i \in DOMAIN checks : checks[i].of # "none",
         Single(q) => Blames(endpoint, q, checks),
         params.count = CountAsked(q),
         Bind(wrapper, Echo(params)) = "none" =>
           Serve(checks, result, params) \in Answers(endpoint, Echo(params))
  PROVE  Kept(endpoint, q, a)
<1>1. CASE Bind(wrapper, q) # "none"
  <2>1. /\ Bind(wrapper, q) \in DOMAIN q
        /\ Len(q[Bind(wrapper, q)]) > 1
    BY <1>1, BindIs
  <2> QED
    BY <1>1, <2>1, Misbound
<1>2. CASE Bind(wrapper, q) = "none"
  <2>1. a = Serve(checks, result, params)
    BY <1>2
  <2>2. Blames(endpoint, q, checks)
    BY <1>2, BindIs
  <2>3. CASE /\ \A i \in DOMAIN checks : checks[i].holds
             /\ Fulfilled(a, result, params)
    <3>1. Faults(endpoint, q) = {}
      BY <2>2, <2>3 DEF Blames
    <3>2. a \in Answers(endpoint, Echo(params))
      BY <2>1, EchoBinds
    <3> QED
      BY <2>3, <3>1, <3>2 DEF Kept, Matches, Shaped, Fulfilled
  <2>4. CASE \E i \in DOMAIN checks :
               ~checks[i].holds /\ a = WriteError(checks[i].of)
    BY <2>2, <2>4 DEF Blames, Kept, Matches, WriteError
  <2> QED
    BY <2>1, <2>3, <2>4, ServeIs
<1> QED
  BY <1>1, <1>2

(* Answer a is that of a handler with these parts.                         *)
Handles(wrapper, q, a, checks, result, params) ==
  /\ Binds(wrapper, q)
  /\ \A n \in DOMAIN q : q[n] \in Given(n)
  /\ Bind(wrapper, q) # "none" => a = WriteError(Bind(wrapper, q))
  /\ Bind(wrapper, q) = "none" => a = Serve(checks, result, params)
  /\ DOMAIN checks \subseteq Nat
  /\ \A i \in DOMAIN checks : checks[i].of # "none"

(* What a handler has found in order when it serves.                       *)
LEMMA HandlerServes ==
  ASSUME NEW wrapper, NEW q, NEW a, NEW checks, NEW result, NEW params,
         Handles(wrapper, q, a, checks, result, params),
         a.status = 200
  PROVE  /\ Bind(wrapper, q) = "none"
         /\ Single(q)
         /\ \A i \in DOMAIN checks : checks[i].holds
         /\ Fulfilled(a, result, params)
<1>1. Bind(wrapper, q) = "none" /\ a = Serve(checks, result, params)
  BY DEF Handles, WriteError
<1>2. Single(q)
  BY <1>1, BindIs DEF Handles
<1>3. \A n : WriteError(n).status # 200
  BY DEF WriteError
<1> QED
  BY <1>1, <1>2, <1>3, ServeIs DEF Handles

-----------------------------------------------------------------------------
(* The endpoints, one by one.                                              *)

(* Dice.                                                                   *)
LEMMA DiceKept ==
  ASSUME NEW q \in Queries("dice"), NEW a \in Answers("dice", q)
  PROVE  Kept("dice", q, a)
<1> DEFINE p == [sides |-> DefaultPtr(q.sides, 6), count |-> DefaultPtr(q.count, 1)]
           checks == <<Check("sides", p.sides \in ValidSides), CountCheck(p.count, 100)>>
           result == [lowest |-> 1, highest |-> p.sides]
           Given2 == \A n \in DOMAIN q : q[n] \in Given(n)
<1>1. q \in [sides : Given("sides"), count : Given("count")]
  BY DEF Queries
<1>2. /\ Binds(RollDiceWrapper, q) /\ Given2
      /\ Binds(RollDiceWrapper, p)
      /\ DOMAIN q = {"sides", "count"}
  BY <1>1 DEF Binds, RollDiceWrapper
<1>3. /\ Bind(RollDiceWrapper, q) # "none" => a = WriteError(Bind(RollDiceWrapper, q))
      /\ Bind(RollDiceWrapper, q) = "none" => a = Serve(checks, result, p)
  BY DEF Answers, RollDiceAnswer, RollDiceService
<1>4. /\ DOMAIN checks = {1, 2}
      /\ checks[1].of = "sides" /\ (checks[1].holds <=> p.sides \in ValidSides)
      /\ checks[2].of = "count" /\ (checks[2].holds <=> p.count \in 1..100)
  <2>1. /\ DOMAIN checks = {1, 2}
        /\ checks[1].of = "sides" /\ checks[2].of = "count"
    BY DEF Check, CountCheck
  <2>2. checks[1].holds <=> p.sides \in ValidSides
    BY DEF Check
  <2>3. checks[2].holds <=> p.count \in 1..100
    BY DEF Check, CountCheck
  <2> QED
    BY <2>1, <2>2, <2>3
<1>5. ASSUME Single(q)
      PROVE  Blames("dice", q, checks)
  <2>1. Fine("dice", q, "sides") <=> p.sides \in ValidSides
    <3>1. \A v : Legal("dice", q, "sides", v) <=> v \in ValidSides
      BY DEF Legal, ValidSides
    <3> QED
      BY <1>2, <1>5, <3>1, ParameterIs DEF ValidSides
  <2>2. Fine("dice", q, "count") <=> p.count \in 1..100
    BY <1>2, <1>5, CountFine DEF MostResults
  <2>3. Faults("dice", q) = {n \in {"sides", "count"} : ~Fine("dice", q, n)}
    BY <1>2, <1>5, FaultsAre
  <2> QED
    BY <1>4, <2>1, <2>2, <2>3 DEF Blames
<1>6. p.count = CountAsked(q)
  BY DEF DefaultPtr, CountAsked
<1>7. Bind(RollDiceWrapper, Echo(p)) = "none" =>
        Serve(checks, result, p) \in Answers("dice", Echo(p))
  BY DEF Answers, RollDiceAnswer, RollDiceService, Echo, DefaultPtr
<1> HIDE DEF checks, result, p
<1> QED
  BY <1>2, <1>3, <1>4, <1>5, <1>6, <1>7, HandlerKeeps

(* UUIDs.                                                                  *)
LEMMA UUIDKept ==
  ASSUME NEW q \in Queries("uuid"), NEW a \in Answers("uuid", q)
  PROVE  Kept("uuid", q, a)
<1> DEFINE p == [count  |-> DefaultPtr(q.count, 1),
                 format |-> DefaultPtr(q.format, "standard")]
           formats == {"standard", "no-dashes", "urn"}
           checks == <<Check("format", p.format \in formats), CountCheck(p.count, 100)>>
           result == UUIDForm(p.format)
           Given2 == \A n \in DOMAIN q : q[n] \in Given(n)
<1>1. q \in [count : Given("count"), format : Given("format")]
  BY DEF Queries
<1>2. /\ Binds(GenerateUUIDWrapper, q) /\ Given2
      /\ Binds(GenerateUUIDWrapper, p)
      /\ DOMAIN q = {"count", "format"}
  BY <1>1 DEF Binds, GenerateUUIDWrapper
<1>3. /\ Bind(GenerateUUIDWrapper, q) # "none" =>
           a = WriteError(Bind(GenerateUUIDWrapper, q))
      /\ Bind(GenerateUUIDWrapper, q) = "none" => a = Serve(checks, result, p)
  BY DEF Answers, GenerateUUIDAnswer, GenerateUUIDs
<1>4. /\ DOMAIN checks = {1, 2}
      /\ checks[1].of = "format" /\ (checks[1].holds <=> p.format \in formats)
      /\ checks[2].of = "count" /\ (checks[2].holds <=> p.count \in 1..100)
  <2>1. /\ DOMAIN checks = {1, 2}
        /\ checks[1].of = "format" /\ checks[2].of = "count"
    BY DEF Check, CountCheck
  <2>2. checks[1].holds <=> p.format \in formats
    BY DEF Check
  <2>3. checks[2].holds <=> p.count \in 1..100
    BY DEF Check, CountCheck
  <2> QED
    BY <2>1, <2>2, <2>3
<1>5. ASSUME Single(q)
      PROVE  Blames("uuid", q, checks)
  <2>1. Fine("uuid", q, "format") <=> p.format \in formats
    <3>1. \A v : Legal("uuid", q, "format", v) <=> v \in formats
      BY DEF Legal, Formats
    <3> QED
      BY <1>2, <1>5, <3>1, ParameterIs
  <2>2. Fine("uuid", q, "count") <=> p.count \in 1..100
    BY <1>2, <1>5, CountFine DEF MostResults
  <2>3. Faults("uuid", q) = {n \in {"count", "format"} : ~Fine("uuid", q, n)}
    BY <1>2, <1>5, FaultsAre
  <2> QED
    BY <1>4, <2>1, <2>2, <2>3 DEF Blames
<1>6. p.count = CountAsked(q)
  BY DEF DefaultPtr, CountAsked
<1>7. Bind(GenerateUUIDWrapper, Echo(p)) = "none" =>
        Serve(checks, result, p) \in Answers("uuid", Echo(p))
  BY DEF Answers, GenerateUUIDAnswer, GenerateUUIDs, Echo, DefaultPtr
<1> HIDE DEF checks, result, p
<1> QED
  BY <1>2, <1>3, <1>4, <1>5, <1>6, <1>7, HandlerKeeps

(* Lorem ipsum: the paragraphs do not count where sentences are asked for. *)
LEMMA LoremKept ==
  ASSUME NEW q \in Queries("lorem"), NEW a \in Answers("lorem", q)
  PROVE  Kept("lorem", q, a)
<1> DEFINE p == [count      |-> DefaultPtr(q.count, 1),
                 paragraphs |-> DefaultPtr(q.paragraphs, 1),
                 sentences  |-> DefaultPtr(q.sentences, 0)]
           checks == <<CountCheck(p.count, 10),
                       Check("sentences", p.sentences <= 50),
                       Check("paragraphs",
                             p.sentences <= 0 => p.paragraphs \in 1..10)>>
           result == LoremTexts(p)
           Given2 == \A n \in DOMAIN q : q[n] \in Given(n)
<1>1. q \in [paragraphs : Given("paragraphs"), sentences : Given("sentences"),
             count : Given("count")]
  BY DEF Queries
<1>2. /\ Binds(GenerateLoremWrapper, q) /\ Given2
      /\ Binds(GenerateLoremWrapper, p)
      /\ DOMAIN q = {"paragraphs", "sentences", "count"}
  BY <1>1 DEF Binds, GenerateLoremWrapper
<1>3. /\ Bind(GenerateLoremWrapper, q) # "none" =>
           a = WriteError(Bind(GenerateLoremWrapper, q))
      /\ Bind(GenerateLoremWrapper, q) = "none" => a = Serve(checks, result, p)
  BY DEF Answers, GenerateLoremAnswer, RandomLorem
<1>4. /\ DOMAIN checks = {1, 2, 3}
      /\ checks[1].of = "count" /\ (checks[1].holds <=> p.count \in 1..10)
      /\ checks[2].of = "sentences" /\ (checks[2].holds <=> p.sentences <= 50)
      /\ checks[3].of = "paragraphs"
      /\ checks[3].holds <=> (p.sentences <= 0 => p.paragraphs \in 1..10)
  <2>1. /\ DOMAIN checks = {1, 2, 3} /\ checks[1].of = "count"
        /\ checks[2].of = "sentences" /\ checks[3].of = "paragraphs"
    BY DEF Check, CountCheck
  <2>2. checks[1].holds <=> p.count \in 1..10
    BY DEF Check, CountCheck
  <2>3. checks[2].holds <=> p.sentences <= 50
    BY DEF Check
  <2>4. checks[3].holds <=> (p.sentences <= 0 => p.paragraphs \in 1..10)
    BY DEF Check
  <2> QED
    BY <2>1, <2>2, <2>3, <2>4
<1>5. ASSUME Single(q)
      PROVE  Blames("lorem", q, checks)
  <2>1. /\ Fine("lorem", q, "sentences") <=> p.sentences <= 50
        /\ p.sentences \in Int
        /\ p.sentences > 0 <=> (q.sentences # <<>> /\ q.sentences[1] > 0)
    <3>1. \A v : Legal("lorem", q, "sentences", v) <=> v <= 50
      BY DEF Legal
    <3>2. Inputs["sentences"] \subseteq Int
      BY GeneratorsAssumption
    <3>3. p.sentences > 0 <=> (q.sentences # <<>> /\ q.sentences[1] > 0)
      BY DEF DefaultPtr
    <3>4. CASE p.sentences = 0 /\ Fine("lorem", q, "sentences")
      BY <3>3, <3>4
    <3>5. CASE \E v \in Inputs["sentences"] :
                 /\ p.sentences = v
                 /\ Fine("lorem", q, "sentences") <=> Legal("lorem", q, "sentences", v)
      BY <3>1, <3>2, <3>3, <3>5
    <3> QED
      BY <1>2, <1>5, <3>4, <3>5, ParameterIs
  <2>2. Fine("lorem", q, "paragraphs") <=>
          (p.sentences <= 0 => p.paragraphs \in 1..10)
    <3>1. \A v : Legal("lorem", q, "paragraphs", v) <=>
                   (1 <= v /\ v <= 10) \/ p.sentences > 0
      BY <2>1 DEF Legal
    <3>2. Inputs["paragraphs"] \subseteq Int
      BY GeneratorsAssumption
    <3>3. CASE p.paragraphs = 1 /\ Fine("lorem", q, "paragraphs")
      BY <3>3
    <3>4. CASE \E v \in Inputs["paragraphs"] :
                 /\ p.paragraphs = v
                 /\ Fine("lorem", q, "paragraphs") <=> Legal("lorem", q, "paragraphs", v)
      BY <2>1, <3>1, <3>2, <3>4
    <3> QED
      BY <1>2, <1>5, <3>3, <3>4, ParameterIs
  <2>3. Fine("lorem", q, "count") <=> p.count \in 1..10
    BY <1>2, <1>5, CountFine DEF MostResults
  <2>4. Faults("lorem", q) =
          {n \in {"paragraphs", "sentences", "count"} : ~Fine("lorem", q, n)}
    BY <1>2, <1>5, FaultsAre
  <2>5. /\ Fine("lorem", q, "count") <=> checks[1].holds
        /\ Fine("lorem", q, "sentences") <=> checks[2].holds
        /\ Fine("lorem", q, "paragraphs") <=> checks[3].holds
    BY <1>4, <2>1, <2>2, <2>3, Zenon
  <2> HIDE DEF checks
  <2> QED
    BY <1>4, <2>4, <2>5 DEF Blames
<1>6. p.count = CountAsked(q)
  BY DEF DefaultPtr, CountAsked
<1>7. Bind(GenerateLoremWrapper, Echo(p)) = "none" =>
        Serve(checks, result, p) \in Answers("lorem", Echo(p))
  <2>1. /\ DefaultPtr(Echo(p).count, 1) = p.count
        /\ DefaultPtr(Echo(p).paragraphs, 1) = p.paragraphs
        /\ DefaultPtr(Echo(p).sentences, 0) = p.sentences
    BY DEF Echo, DefaultPtr
  <2>2. GenerateLoremAnswer(Echo(p)) = Serve(checks, result, p)
    BY <2>1, Zenon DEF GenerateLoremAnswer, RandomLorem
  <2> QED
    BY <2>2 DEF Answers
<1> HIDE DEF checks, result, p
<1> QED
  BY <1>2, <1>3, <1>4, <1>5, <1>6, <1>7, HandlerKeeps

(* SSH keys: the bits count for RSA only.                                  *)
LEMMA SSHKeyKept ==
  ASSUME NEW q \in Queries("ssh-key"), NEW a \in Answers("ssh-key", q)
  PROVE  Kept("ssh-key", q, a)
<1> DEFINE p == [type    |-> DefaultPtr(q.type, "ed25519"),
                 bits    |-> DefaultPtr(q.bits, 2048),
                 comment |-> DefaultPtr(q.comment, NoText),
                 count   |-> DefaultPtr(q.count, 1)]
           sizes == p.type = "rsa" => p.bits \in {2048, 4096}
           checks == <<Check("type", p.type \in {"ed25519", "rsa"}),
                       Check("bits", sizes),
                       Check("comment", p.comment.bytes <= 128),
                       CountCheck(p.count, 5)>>
           result == GenerateSSHKeyPair(p)
           Given2 == \A n \in DOMAIN q : q[n] \in Given(n)
<1>1. q \in [type : Given("type"), bits : Given("bits"),
             comment : Given("comment"), count : Given("count")]
  BY DEF Queries
<1>2. /\ Binds(GenerateSSHKeyWrapper, q) /\ Given2
      /\ Binds(GenerateSSHKeyWrapper, p)
      /\ DOMAIN q = {"type", "bits", "comment", "count"}
  BY <1>1 DEF Binds, GenerateSSHKeyWrapper
<1>3. /\ Bind(GenerateSSHKeyWrapper, q) # "none" =>
           a = WriteError(Bind(GenerateSSHKeyWrapper, q))
      /\ Bind(GenerateSSHKeyWrapper, q) = "none" => a = Serve(checks, result, p)
  BY DEF Answers, GenerateSSHKeyAnswer, GenerateSSHKeys
<1>4. /\ DOMAIN checks = {1, 2, 3, 4}
      /\ checks[1].of = "type" /\ (checks[1].holds <=> p.type \in {"ed25519", "rsa"})
      /\ checks[2].of = "bits" /\ (checks[2].holds <=> sizes)
      /\ checks[3].of = "comment" /\ (checks[3].holds <=> p.comment.bytes <= 128)
      /\ checks[4].of = "count" /\ (checks[4].holds <=> p.count \in 1..5)
  <2>1. /\ DOMAIN checks = {1, 2, 3, 4}
        /\ checks[1].of = "type" /\ checks[2].of = "bits"
        /\ checks[3].of = "comment" /\ checks[4].of = "count"
    BY DEF Check, CountCheck
  <2>2. checks[1].holds <=> p.type \in {"ed25519", "rsa"}
    BY DEF Check
  <2>3. checks[2].holds <=> sizes
    <3> HIDE DEF sizes
    <3> QED
      BY DEF Check
  <2>4. checks[3].holds <=> p.comment.bytes <= 128
    BY DEF Check
  <2>5. checks[4].holds <=> p.count \in 1..5
    BY DEF Check, CountCheck
  <2> QED
    BY <2>1, <2>2, <2>3, <2>4, <2>5
<1>5. ASSUME Single(q)
      PROVE  Blames("ssh-key", q, checks)
  <2>1. Fine("ssh-key", q, "type") <=> p.type \in {"ed25519", "rsa"}
    <3>1. \A v : Legal("ssh-key", q, "type", v) <=> v \in {"ed25519", "rsa"}
      BY DEF Legal
    <3> QED
      BY <1>2, <1>5, <3>1, ParameterIs
  <2>2. p.type = "rsa" <=> q.type = <<"rsa">>
    <3>1. CASE q.type = <<>>
      BY <3>1 DEF DefaultPtr
    <3>2. CASE \E v \in Inputs["type"] : q.type = <<v>>
      BY <3>2 DEF DefaultPtr
    <3> QED
      BY <1>2, <1>5, <3>1, <3>2 DEF Single
  <2>3. Fine("ssh-key", q, "bits") <=> sizes
    <3>1. \A v : Legal("ssh-key", q, "bits", v) <=>
                   v \in {2048, 4096} \/ p.type # "rsa"
      BY <2>2 DEF Legal
    <3>2. CASE p.bits = 2048 /\ Fine("ssh-key", q, "bits")
      BY <3>2
    <3>3. CASE \E v \in Inputs["bits"] :
                 /\ p.bits = v
                 /\ Fine("ssh-key", q, "bits") <=> Legal("ssh-key", q, "bits", v)
      BY <3>1, <3>3
    <3> QED
      BY <1>2, <1>5, <3>2, <3>3, ParameterIs
  <2>4. Fine("ssh-key", q, "comment") <=> p.comment.bytes <= 128
    <3>1. \A v : Legal("ssh-key", q, "comment", v) <=> v.bytes <= 128
      BY DEF Legal
    <3>2. NoText.bytes <= 128
      BY DEF NoText
    <3> QED
      BY <1>2, <1>5, <3>1, <3>2, ParameterIs
  <2>5. Fine("ssh-key", q, "count") <=> p.count \in 1..5
    BY <1>2, <1>5, CountFine DEF MostResults
  <2>6. Faults("ssh-key", q) =
          {n \in {"type", "bits", "comment", "count"} : ~Fine("ssh-key", q, n)}
    BY <1>2, <1>5, FaultsAre
  <2>7. /\ Fine("ssh-key", q, "type") <=> checks[1].holds
        /\ Fine("ssh-key", q, "bits") <=> checks[2].holds
        /\ Fine("ssh-key", q, "comment") <=> checks[3].holds
        /\ Fine("ssh-key", q, "count") <=> checks[4].holds
    <3> HIDE DEF checks, p
    <3> QED
      BY <1>4, <2>1, <2>3, <2>4, <2>5
  <2> HIDE DEF checks
  <2> QED
    BY <1>4, <2>6, <2>7 DEF Blames
<1>6. p.count = CountAsked(q)
  BY DEF DefaultPtr, CountAsked
<1>7. Bind(GenerateSSHKeyWrapper, Echo(p)) = "none" =>
        Serve(checks, result, p) \in Answers("ssh-key", Echo(p))
  <2>1. /\ DefaultPtr(Echo(p).type, "ed25519") = DefaultPtr(q.type, "ed25519")
        /\ DefaultPtr(Echo(p).bits, 2048) = DefaultPtr(q.bits, 2048)
        /\ DefaultPtr(Echo(p).comment, NoText) = DefaultPtr(q.comment, NoText)
        /\ DefaultPtr(Echo(p).count, 1) = DefaultPtr(q.count, 1)
    BY DEF Echo, DefaultPtr
  <2>2. GenerateSSHKeyAnswer(Echo(p)) = GenerateSSHKeys(p)
    BY <2>1 DEF GenerateSSHKeyAnswer
  <2>3. GenerateSSHKeys(p) = Serve(checks, result, p)
    BY DEF GenerateSSHKeys
  <2> QED
    BY <2>2, <2>3 DEF Answers
<1> HIDE DEF checks, result, p
<1> QED
  BY <1>2, <1>3, <1>4, <1>5, <1>6, <1>7, HandlerKeeps

(* Words: their number counts for the random style only, and the style     *)
(* gives the other defaults.                                               *)
LEMMA WordsKept ==
  ASSUME NEW q \in Queries("words"), NEW a \in Answers("words", q)
  PROVE  Kept("words", q, a)
<1> DEFINE style == DefaultPtr(q.style, "random")
           styles == {"random", "docker", "ubuntu"}
           p == [style      |-> style,
                 words      |-> DefaultPtr(q.words, 4),
                 separator  |-> DefaultPtr(q.separator, StyleSeparator(style)),
                 capitalize |-> DefaultPtr(q.capitalize, style = "ubuntu"),
                 count      |-> DefaultPtr(q.count, 1)]
           number == p.style = "random" => p.words \in 1..20
           checks == <<Check("style", p.style \in styles),
                       Check("separator", p.separator.bytes <= 5),
                       Check("words", number),
                       CountCheck(p.count, 100)>>
           result == [words      |-> IF p.style = "random" THEN p.words ELSE 2,
                      separator  |-> p.separator,
                      capitalize |-> p.capitalize]
           Given2 == \A n \in DOMAIN q : q[n] \in Given(n)
<1>1. q \in [style : Given("style"), words : Given("words"),
             separator : Given("separator"), capitalize : Given("capitalize"),
             count : Given("count")]
  BY DEF Queries
<1>2. /\ Binds(GenerateWordsWrapper, q) /\ Given2
      /\ Binds(GenerateWordsWrapper, p)
      /\ DOMAIN q = {"style", "words", "separator", "capitalize", "count"}
  BY <1>1 DEF Binds, GenerateWordsWrapper
<1>3. /\ Bind(GenerateWordsWrapper, q) # "none" =>
           a = WriteError(Bind(GenerateWordsWrapper, q))
      /\ Bind(GenerateWordsWrapper, q) = "none" => a = Serve(checks, result, p)
  BY DEF Answers, GenerateWordsAnswer, RandomWords
<1>4. /\ DOMAIN checks = {1, 2, 3, 4}
      /\ checks[1].of = "style" /\ (checks[1].holds <=> p.style \in styles)
      /\ checks[2].of = "separator" /\ (checks[2].holds <=> p.separator.bytes <= 5)
      /\ checks[3].of = "words" /\ (checks[3].holds <=> number)
      /\ checks[4].of = "count" /\ (checks[4].holds <=> p.count \in 1..100)
  <2>1. /\ DOMAIN checks = {1, 2, 3, 4}
        /\ checks[1].of = "style" /\ checks[2].of = "separator"
        /\ checks[3].of = "words" /\ checks[4].of = "count"
    BY DEF Check, CountCheck
  <2>2. checks[1].holds <=> p.style \in styles
    BY DEF Check
  <2>3. checks[2].holds <=> p.separator.bytes <= 5
    BY DEF Check
  <2>4. checks[3].holds <=> number
    BY DEF Check
  <2>5. checks[4].holds <=> p.count \in 1..100
    BY DEF Check, CountCheck
  <2> QED
    BY <2>1, <2>2, <2>3, <2>4, <2>5
<1>5. ASSUME Single(q)
      PROVE  Blames("words", q, checks)
  <2>1. Fine("words", q, "style") <=> p.style \in styles
    <3>1. \A v : Legal("words", q, "style", v) <=> v \in styles
      BY DEF Legal
    <3> QED
      BY <1>2, <1>5, <3>1, ParameterIs
  <2>2. p.style = "random" <=> q.style \in {<<>>, <<"random">>}
    <3>1. CASE q.style = <<>>
      BY <3>1 DEF DefaultPtr
    <3>2. CASE \E v \in Inputs["style"] : q.style = <<v>>
      BY <3>2 DEF DefaultPtr
    <3> QED
      BY <1>2, <1>5, <3>1, <3>2 DEF Single
  <2>3. Fine("words", q, "words") <=> number
    <3>1. \A v : Legal("words", q, "words", v) <=>
                   (1 <= v /\ v <= 20) \/ p.style # "random"
      BY <2>2 DEF Legal
    <3>2. Inputs["words"] \subseteq Int
      BY GeneratorsAssumption
    <3>3. CASE p.words = 4 /\ Fine("words", q, "words")
      BY <3>3
    <3>4. CASE \E v \in Inputs["words"] :
                 /\ p.words = v
                 /\ Fine("words", q, "words") <=> Legal("words", q, "words", v)
      BY <3>1, <3>2, <3>4
    <3> QED
      BY <1>2, <1>5, <3>3, <3>4, ParameterIs
  <2>4. Fine("words", q, "separator") <=> p.separator.bytes <= 5
    <3>1. \A v : Legal("words", q, "separator", v) <=> v.bytes <= 5
      BY DEF Legal
    <3>2. StyleSeparator(style).bytes <= 5
      BY DEF StyleSeparator, Symbol
    <3> QED
      BY <1>2, <1>5, <3>1, <3>2, ParameterIs
  <2>5. Fine("words", q, "capitalize")
    BY DEF Fine, Legal
  <2>6. Fine("words", q, "count") <=> p.count \in 1..100
    BY <1>2, <1>5, CountFine DEF MostResults
  <2>7. Faults("words", q) =
          {n \in {"style", "words", "separator", "capitalize", "count"} :
             ~Fine("words", q, n)}
    BY <1>2, <1>5, FaultsAre
  <2>8. /\ Fine("words", q, "style") <=> checks[1].holds
        /\ Fine("words", q, "separator") <=> checks[2].holds
        /\ Fine("words", q, "words") <=> checks[3].holds
        /\ Fine("words", q, "count") <=> checks[4].holds
    BY <1>4, <2>1, <2>3, <2>4, <2>6, Zenon
  <2> HIDE DEF checks
  <2> QED
    BY <1>4, <2>5, <2>7, <2>8 DEF Blames
<1>6. p.count = CountAsked(q)
  BY DEF DefaultPtr, CountAsked
<1>7. Bind(GenerateWordsWrapper, Echo(p)) = "none" =>
        Serve(checks, result, p) \in Answers("words", Echo(p))
  <2>1. /\ DefaultPtr(Echo(p).style, "random") = style
        /\ DefaultPtr(Echo(p).words, 4) = DefaultPtr(q.words, 4)
        /\ DefaultPtr(Echo(p).separator, StyleSeparator(style))
             = DefaultPtr(q.separator, StyleSeparator(style))
        /\ DefaultPtr(Echo(p).capitalize, style = "ubuntu")
             = DefaultPtr(q.capitalize, style = "ubuntu")
        /\ DefaultPtr(Echo(p).count, 1) = DefaultPtr(q.count, 1)
    BY DEF Echo, DefaultPtr
  <2>2. GenerateWordsAnswer(Echo(p)) = RandomWords(p)
    BY <2>1 DEF GenerateWordsAnswer
  <2>3. RandomWords(p) = Serve(checks, result, p)
    BY DEF RandomWords
  <2> QED
    BY <2>2, <2>3 DEF Answers
<1> HIDE DEF checks, result, p
<1> QED
  BY <1>2, <1>3, <1>4, <1>5, <1>6, <1>7, HandlerKeeps

(* Passwords: some set of characters is on.                                *)
LEMMA PasswordKept ==
  ASSUME NEW q \in Queries("password"), NEW a \in Answers("password", q)
  PROVE  Kept("password", q, a)
<1> DEFINE p == [length    |-> DefaultPtr(q.length, 16),
                 uppercase |-> DefaultPtr(q.uppercase, TRUE),
                 lowercase |-> DefaultPtr(q.lowercase, TRUE),
                 digits    |-> DefaultPtr(q.digits, TRUE),
                 symbols   |-> DefaultPtr(q.symbols, TRUE),
                 count     |-> DefaultPtr(q.count, 1)]
           some == \E set \in Sets : p[set]
           checks == <<Check("sets", some),
                       Check("length", p.length \in 8..128),
                       CountCheck(p.count, 100)>>
           result == [length |-> p.length, sets |-> {set \in Sets : p[set]}]
           Given2 == \A n \in DOMAIN q : q[n] \in Given(n)
<1>1. q \in [length : Given("length"), uppercase : Given("uppercase"),
             lowercase : Given("lowercase"), digits : Given("digits"),
             symbols : Given("symbols"), count : Given("count")]
  BY DEF Queries
<1>2. /\ Binds(GeneratePasswordWrapper, q) /\ Given2
      /\ Binds(GeneratePasswordWrapper, p)
      /\ DOMAIN q = {"length", "count"} \cup Sets
  BY <1>1 DEF Binds, GeneratePasswordWrapper, Sets
<1>3. /\ Bind(GeneratePasswordWrapper, q) # "none" =>
           a = WriteError(Bind(GeneratePasswordWrapper, q))
      /\ Bind(GeneratePasswordWrapper, q) = "none" => a = Serve(checks, result, p)
  BY DEF Answers, GeneratePasswordAnswer, GeneratePasswords
<1>4. /\ DOMAIN checks = {1, 2, 3}
      /\ checks[1].of = "sets" /\ (checks[1].holds <=> some)
      /\ checks[2].of = "length" /\ (checks[2].holds <=> p.length \in 8..128)
      /\ checks[3].of = "count" /\ (checks[3].holds <=> p.count \in 1..100)
  <2> HIDE DEF some, p
  <2>1. /\ DOMAIN checks = {1, 2, 3}
        /\ checks[1].of = "sets" /\ checks[2].of = "length"
        /\ checks[3].of = "count"
    BY DEF Check, CountCheck
  <2>2. checks[1].holds <=> some
    BY DEF Check
  <2>3. checks[2].holds <=> p.length \in 8..128
    BY DEF Check
  <2>4. checks[3].holds <=> p.count \in 1..100
    BY DEF Check, CountCheck
  <2> QED
    BY <2>1, <2>2, <2>3, <2>4
<1>5. ASSUME Single(q)
      PROVE  Blames("password", q, checks)
  <2>1. Fine("password", q, "length") <=> p.length \in 8..128
    <3>1. \A v : Legal("password", q, "length", v) <=> (8 <= v /\ v <= 128)
      BY DEF Legal
    <3>2. Inputs["length"] \subseteq Int
      BY GeneratorsAssumption
    <3>3. CASE p.length = 16 /\ Fine("password", q, "length")
      BY <3>3
    <3>4. CASE \E v \in Inputs["length"] :
                 /\ p.length = v
                 /\ Fine("password", q, "length") <=> Legal("password", q, "length", v)
      BY <3>1, <3>2, <3>4
    <3> QED
      BY <1>2, <1>5, <3>3, <3>4, ParameterIs
  <2>2. \A set \in Sets : Fine("password", q, set)
    BY DEF Fine, Legal, Sets
  <2>3. Fine("password", q, "count") <=> p.count \in 1..100
    BY <1>2, <1>5, CountFine DEF MostResults
  <2>4. some <=> ~(\A set \in Sets : q[set] = <<FALSE>>)
    <3>1. /\ p["uppercase"] = DefaultPtr(q["uppercase"], TRUE)
          /\ p["lowercase"] = DefaultPtr(q["lowercase"], TRUE)
          /\ p["digits"] = DefaultPtr(q["digits"], TRUE)
          /\ p["symbols"] = DefaultPtr(q["symbols"], TRUE)
      OBVIOUS
    <3>2. ASSUME NEW set \in Sets
          PROVE  DefaultPtr(q[set], TRUE) <=> q[set] # <<FALSE>>
      <4>1. Inputs[set] \subseteq BOOLEAN /\ set \in DOMAIN q
        BY <1>2, GeneratorsAssumption DEF Sets
      <4> QED
        BY <1>5, <4>1, FlagIs
    <3>3. \A set \in Sets : p[set] <=> q[set] # <<FALSE>>
      <4> HIDE DEF p
      <4> QED
        BY <3>1, <3>2, Zenon DEF Sets
    <3> QED
      BY <3>3, Zenon
  <2>5. Faults("password", q) =
          {n \in {"length", "count"} : ~Fine("password", q, n)}
            \cup {f \in {"sets"} : ~some}
    <3>1. Illegal("password", q) = {n \in {"length", "count"} : ~Fine("password", q, n)}
      BY <1>2, <2>2 DEF Illegal
    <3>2. BoundsFault("password", q) = {}
      BY DEF BoundsFault
    <3>3. SetsFault("password", q) = {f \in {"sets"} : ~some}
      BY <2>4 DEF SetsFault
    <3> HIDE DEF some
    <3> QED
      BY <1>5, <3>1, <3>2, <3>3, AllFaultsAre
  <2>6. /\ ~(Fine("password", q, "length")) <=> ~checks[2].holds
        /\ ~(Fine("password", q, "count")) <=> ~checks[3].holds
    <3> HIDE DEF checks, p
    <3> QED
      BY <1>4, <2>1, <2>3
  <2> HIDE DEF checks, some
  <2> QED
    BY <1>4, <2>5, <2>6 DEF Blames
<1>6. p.count = CountAsked(q)
  BY DEF DefaultPtr, CountAsked
<1>7. Bind(GeneratePasswordWrapper, Echo(p)) = "none" =>
        Serve(checks, result, p) \in Answers("password", Echo(p))
  <2>1. /\ DefaultPtr(Echo(p).length, 16) = DefaultPtr(q.length, 16)
        /\ DefaultPtr(Echo(p).uppercase, TRUE) = DefaultPtr(q.uppercase, TRUE)
        /\ DefaultPtr(Echo(p).lowercase, TRUE) = DefaultPtr(q.lowercase, TRUE)
        /\ DefaultPtr(Echo(p).digits, TRUE) = DefaultPtr(q.digits, TRUE)
        /\ DefaultPtr(Echo(p).symbols, TRUE) = DefaultPtr(q.symbols, TRUE)
        /\ DefaultPtr(Echo(p).count, 1) = DefaultPtr(q.count, 1)
    BY DEF Echo, DefaultPtr
  <2>2. GeneratePasswordAnswer(Echo(p)) = GeneratePasswords(p)
    BY <2>1 DEF GeneratePasswordAnswer
  <2>3. GeneratePasswords(p) = Serve(checks, result, p)
    BY DEF GeneratePasswords
  <2> QED
    BY <2>2, <2>3 DEF Answers
<1> HIDE DEF checks, result, p
<1> QED
  BY <1>2, <1>3, <1>4, <1>5, <1>6, <1>7, HandlerKeeps

(* What GenerateNumberAnswer makes of a query.                             *)
NumberParams(q) == [min   |-> DefaultPtr(q.min, 0),
                    max   |-> DefaultPtr(q.max, 100),
                    count |-> DefaultPtr(q.count, 1),
                    float |-> DefaultPtr(q.float, FALSE)]

(* Its bounds, and what can be wrong with a query.                         *)
LEMMA NumberFaults ==
  ASSUME NEW q \in Queries("number"), Single(q)
  PROVE  LET p == NumberParams(q)
             agree == /\ p.min <= p.max
                      /\ p.float \/ (p.min >= -MaxBound /\ p.max <= MaxBound)
         IN  /\ p.min \in Int /\ p.max \in Int /\ p.float \in BOOLEAN
             /\ Fine("number", q, "count") <=> p.count \in 1..100
             /\ Faults("number", q) =
                  {n \in {"count"} : ~Fine("number", q, n)}
                    \cup {f \in {"bounds"} : ~agree}
<1> DEFINE p == NumberParams(q)
           agree == /\ p.min <= p.max
                    /\ p.float \/ (p.min >= -MaxBound /\ p.max <= MaxBound)
<1>1. DOMAIN q = {"min", "max", "count", "float"}
  BY DEF Queries
<1>2. /\ p.min = DefaultPtr(q.min, 0) /\ p.max = DefaultPtr(q.max, 100)
      /\ p.count = DefaultPtr(q.count, 1) /\ p.float = DefaultPtr(q.float, FALSE)
  BY DEF NumberParams
<1>3. Inputs["min"] \subseteq Int /\ Inputs["max"] \subseteq Int
        /\ Inputs["float"] \subseteq BOOLEAN
  BY GeneratorsAssumption
<1>4. p.min \in Int
  <2> HIDE DEF p
  <2>1. p.min = 0 \/ p.min \in Inputs["min"]
    BY <1>1, <1>2, ValueIs
  <2> QED
    BY <1>3, <2>1
<1>5. p.max \in Int
  <2> HIDE DEF p
  <2>1. p.max = 100 \/ p.max \in Inputs["max"]
    BY <1>1, <1>2, ValueIs
  <2> QED
    BY <1>3, <2>1
<1>6. p.float \in BOOLEAN /\ (p.float <=> q.float = <<TRUE>>)
  BY <1>1, <1>2, <1>3, FlagIs
<1>7. Fine("number", q, "count") <=> p.count \in 1..100
  BY <1>1, <1>2, CountFine DEF MostResults
<1>8. BoundsAgree(q) <=> agree
  <2> DEFINE lo == IF q.min = <<>> THEN 0 ELSE q.min[1]
             hi == IF q.max = <<>> THEN 100 ELSE q.max[1]
  <2>1. p.min = lo /\ p.max = hi
    BY <1>2, Zenon DEF DefaultPtr
  <2>2. BoundsAgree(q) <=>
          lo <= hi /\ ((-MaxBound <= lo /\ hi <= MaxBound) \/ q.float = <<TRUE>>)
    BY SMT DEF BoundsAgree, MaxBound
  <2> HIDE DEF p, lo, hi
  <2>3. MaxBound \in Int
    BY SMT DEF MaxBound
  <2>4. -MaxBound <= p.min <=> p.min >= -MaxBound
    BY <1>4, <2>3
  <2> QED
    BY <1>6, <2>1, <2>2, <2>4, Zenon
<1>9. Faults("number", q) = {n \in {"count"} : ~Fine("number", q, n)}
                              \cup {f \in {"bounds"} : ~agree}
  <2>1. /\ Fine("number", q, "min") /\ Fine("number", q, "max")
        /\ Fine("number", q, "float")
    BY DEF Fine, Legal
  <2>2. Illegal("number", q) = {n \in {"count"} : ~Fine("number", q, n)}
    BY <1>1, <2>1 DEF Illegal
  <2>3. BoundsFault("number", q) = {f \in {"bounds"} : ~agree}
    BY <1>8 DEF BoundsFault
  <2>4. SetsFault("number", q) = {}
    BY DEF SetsFault
  <2> HIDE DEF agree
  <2> QED
    BY <2>2, <2>3, <2>4, AllFaultsAre
<1> QED
  BY <1>4, <1>5, <1>6, <1>7, <1>9

(* Both bounds can be drawn, and the argument of IntN is one.              *)
BothEnds(a) ==
  /\ a.result.lowest = a.params.min
  /\ a.result.highest = a.params.max
  /\ ~a.params.float => 1 <= a.result.span /\ a.result.span <= 2147483647

(* Integers: the bounds are checked first.                                 *)
LEMMA IntsKept ==
  ASSUME NEW q \in Queries("number"), NEW a \in Answers("number", q),
         ~NumberParams(q).float
  PROVE  Kept("number", q, a) /\ (a.status = 200 => BothEnds(a))
<1> DEFINE p == NumberParams(q)
           checks == ValidateNumberParams(p)
           inside == p.min >= -MaxBound /\ p.max <= MaxBound
           result == [span |-> Span(p.min, p.max), lowest |-> p.min,
                      highest |-> p.min + (Span(p.min, p.max) - 1)]
           Given2 == \A n \in DOMAIN q : q[n] \in Given(n)
<1>1. /\ Binds(GenerateNumberWrapper, q) /\ Given2
      /\ Binds(GenerateNumberWrapper, p)
      /\ DOMAIN q = {"min", "max", "count", "float"}
  BY DEF Queries, Binds, GenerateNumberWrapper, NumberParams
<1>2. /\ Bind(GenerateNumberWrapper, q) # "none" =>
           a = WriteError(Bind(GenerateNumberWrapper, q))
      /\ Bind(GenerateNumberWrapper, q) = "none" => a = Serve(checks, result, p)
  <2>1. GenerateNumberAnswer(q) = Serve(checks, result, p)
    BY Zenon DEF GenerateNumberAnswer, RandomInts, NumberParams
  <2> QED
    BY <2>1 DEF Answers
<1> HIDE DEF p
<1>3. /\ DOMAIN checks = {1, 2, 3}
      /\ checks[1].of = "bounds" /\ (checks[1].holds <=> inside)
      /\ checks[2].of = "bounds" /\ (checks[2].holds <=> p.min <= p.max)
      /\ checks[3].of = "count" /\ (checks[3].holds <=> p.count \in 1..100)
  <2> HIDE DEF inside
  <2>1. /\ DOMAIN checks = {1, 2, 3}
        /\ checks[1].of = "bounds" /\ checks[2].of = "bounds"
        /\ checks[3].of = "count"
    BY DEF Check, CountCheck, ValidateNumberParams
  <2>2. checks[1].holds <=> inside
    BY DEF Check, ValidateNumberParams, inside
  <2>3. checks[2].holds <=> p.min <= p.max
    BY DEF Check, ValidateNumberParams
  <2>4. checks[3].holds <=> p.count \in 1..100
    BY DEF Check, CountCheck, ValidateNumberParams
  <2> QED
    BY <2>1, <2>2, <2>3, <2>4
<1>4. ASSUME Single(q)
      PROVE  Blames("number", q, checks)
  <2>1. Faults("number", q) = {n \in {"count"} : ~Fine("number", q, n)}
                                \cup {f \in {"bounds"} : ~(p.min <= p.max /\ inside)}
    BY <1>4, NumberFaults DEF p
  <2>2. Fine("number", q, "count") <=> p.count \in 1..100
    BY <1>4, NumberFaults DEF p
  <2> HIDE DEF checks, inside
  <2> QED
    BY <1>3, <2>1, <2>2 DEF Blames
<1>5. p.count = CountAsked(q)
  BY DEF DefaultPtr, CountAsked, NumberParams, p
<1>6. Bind(GenerateNumberWrapper, Echo(p)) = "none" =>
        Serve(checks, result, p) \in Answers("number", Echo(p))
  <2>1. /\ DefaultPtr(Echo(p).min, 0) = DefaultPtr(q.min, 0)
        /\ DefaultPtr(Echo(p).max, 100) = DefaultPtr(q.max, 100)
        /\ DefaultPtr(Echo(p).count, 1) = DefaultPtr(q.count, 1)
        /\ DefaultPtr(Echo(p).float, FALSE) = DefaultPtr(q.float, FALSE)
    BY DEF Echo, DefaultPtr, NumberParams, p
  <2>2. NumberParams(Echo(p)) = p
    BY <2>1, Zenon DEF NumberParams, p
  <2>3. GenerateNumberAnswer(Echo(p)) = RandomInts(NumberParams(Echo(p)))
    BY <2>2, Zenon DEF GenerateNumberAnswer, NumberParams, p
  <2>4. RandomInts(p) = Serve(checks, result, p)
    BY DEF RandomInts
  <2> QED
    BY <2>2, <2>3, <2>4 DEF Answers
<1>7. Kept("number", q, a)
  <2> HIDE DEF checks, result
  <2> QED
    BY <1>1, <1>2, <1>3, <1>4, <1>5, <1>6, HandlerKeeps
<1>8. ASSUME a.status = 200
      PROVE  BothEnds(a)
  <2>1. /\ Single(q)
        /\ inside /\ p.min <= p.max
        /\ Fulfilled(a, result, p)
    <3> HIDE DEF checks, result, inside
    <3>1. Handles(GenerateNumberWrapper, q, a, checks, result, p)
      BY <1>1, <1>2, <1>3 DEF Handles
    <3>2. /\ Single(q)
          /\ \A i \in DOMAIN checks : checks[i].holds
          /\ Fulfilled(a, result, p)
      BY <1>8, <3>1, HandlerServes
    <3> QED
      BY <1>3, <3>2
  <2>2. p.min \in Int /\ p.max \in Int
    BY <2>1, NumberFaults DEF p
  <2>3. /\ p.min + (Span(p.min, p.max) - 1) = p.max
        /\ 1 <= Span(p.min, p.max) /\ Span(p.min, p.max) <= 2147483647
    BY <2>1, <2>2, SMT DEF Span, MaxBound
  <2> QED
    BY <2>1, <2>3, SMT DEF BothEnds, Fulfilled
<1> QED
  BY <1>7, <1>8

(* Floats: only their order is.                                            *)
LEMMA FloatsKept ==
  ASSUME NEW q \in Queries("number"), NEW a \in Answers("number", q),
         NumberParams(q).float
  PROVE  Kept("number", q, a) /\ (a.status = 200 => BothEnds(a))
<1> DEFINE p == NumberParams(q)
           checks == <<Check("bounds", p.min <= p.max), CountCheck(p.count, 100)>>
           result == [lowest |-> p.min, highest |-> p.max]
           Given2 == \A n \in DOMAIN q : q[n] \in Given(n)
<1>1. /\ Binds(GenerateNumberWrapper, q) /\ Given2
      /\ Binds(GenerateNumberWrapper, p)
      /\ DOMAIN q = {"min", "max", "count", "float"}
  BY DEF Queries, Binds, GenerateNumberWrapper, NumberParams
<1>2. /\ Bind(GenerateNumberWrapper, q) # "none" =>
           a = WriteError(Bind(GenerateNumberWrapper, q))
      /\ Bind(GenerateNumberWrapper, q) = "none" => a = Serve(checks, result, p)
  <2>1. GenerateNumberAnswer(q) = Serve(checks, result, p)
    BY Zenon DEF GenerateNumberAnswer, RandomFloats, NumberParams
  <2> QED
    BY <2>1 DEF Answers
<1> HIDE DEF p
<1>3. /\ DOMAIN checks = {1, 2}
      /\ checks[1].of = "bounds" /\ (checks[1].holds <=> p.min <= p.max)
      /\ checks[2].of = "count" /\ (checks[2].holds <=> p.count \in 1..100)
  <2>1. /\ DOMAIN checks = {1, 2}
        /\ checks[1].of = "bounds" /\ checks[2].of = "count"
    BY DEF Check, CountCheck
  <2>2. checks[1].holds <=> p.min <= p.max
    BY DEF Check
  <2>3. checks[2].holds <=> p.count \in 1..100
    BY DEF Check, CountCheck
  <2> QED
    BY <2>1, <2>2, <2>3
<1>4. ASSUME Single(q)
      PROVE  Blames("number", q, checks)
  <2>1. Faults("number", q) = {n \in {"count"} : ~Fine("number", q, n)}
                                \cup {f \in {"bounds"} : ~(p.min <= p.max)}
    BY <1>4, NumberFaults DEF p
  <2>2. Fine("number", q, "count") <=> p.count \in 1..100
    BY <1>4, NumberFaults DEF p
  <2> HIDE DEF checks
  <2> QED
    BY <1>3, <2>1, <2>2 DEF Blames
<1>5. p.count = CountAsked(q)
  BY DEF DefaultPtr, CountAsked, NumberParams, p
<1>6. Bind(GenerateNumberWrapper, Echo(p)) = "none" =>
        Serve(checks, result, p) \in Answers("number", Echo(p))
  <2>1. /\ DefaultPtr(Echo(p).min, 0) = DefaultPtr(q.min, 0)
        /\ DefaultPtr(Echo(p).max, 100) = DefaultPtr(q.max, 100)
        /\ DefaultPtr(Echo(p).count, 1) = DefaultPtr(q.count, 1)
        /\ DefaultPtr(Echo(p).float, FALSE) = DefaultPtr(q.float, FALSE)
    BY DEF Echo, DefaultPtr, NumberParams, p
  <2>2. NumberParams(Echo(p)) = p
    BY <2>1, Zenon DEF NumberParams, p
  <2>3. GenerateNumberAnswer(Echo(p)) = RandomFloats(NumberParams(Echo(p)))
    BY <2>2, Zenon DEF GenerateNumberAnswer, NumberParams, p
  <2>4. RandomFloats(p) = Serve(checks, result, p)
    BY DEF RandomFloats
  <2> QED
    BY <2>2, <2>3, <2>4 DEF Answers
<1>7. Kept("number", q, a)
  <2> HIDE DEF checks, result
  <2> QED
    BY <1>1, <1>2, <1>3, <1>4, <1>5, <1>6, HandlerKeeps
<1>8. ASSUME a.status = 200
      PROVE  BothEnds(a)
  <2>1. Fulfilled(a, result, p)
    <3> HIDE DEF checks, result
    <3>1. Handles(GenerateNumberWrapper, q, a, checks, result, p)
      BY <1>1, <1>2, <1>3 DEF Handles
    <3> QED
      BY <1>8, <3>1, HandlerServes
  <2> QED
    BY <2>1, SMT DEF BothEnds, Fulfilled, p
<1> QED
  BY <1>7, <1>8

(* Coordinates, wherever the box is.                                       *)
LEMMA CoordinatesKept ==
  ASSUME NEW q \in Queries("coordinates"), NEW a \in Answers("coordinates", q)
  PROVE  Kept("coordinates", q, a)
<1> DEFINE p == [count     |-> DefaultPtr(q.count, 1),
                 land_only |-> DefaultPtr(q.land_only, FALSE)]
           checks == <<CountCheck(p.count, 100)>>
           boxes == IF p.land_only THEN LandBoxes ELSE {World}
           Given2 == \A n \in DOMAIN q : q[n] \in Given(n)
<1>1. /\ Binds(GenerateCoordinatesWrapper, q) /\ Given2
      /\ Binds(GenerateCoordinatesWrapper, p)
      /\ DOMAIN q = {"count", "land_only"}
  BY DEF Queries, Binds, GenerateCoordinatesWrapper
<1>2. GenerateCoordinatesAnswers(q) = {Serve(checks, box, p) : box \in boxes}
  BY Zenon DEF GenerateCoordinatesAnswers
<1>3. CASE Bind(GenerateCoordinatesWrapper, q) # "none"
  <2>1. a = WriteError(Bind(GenerateCoordinatesWrapper, q))
    BY <1>3 DEF Answers
  <2> QED
    BY <1>1, <1>3, <2>1, BindIs, Misbound
<1>4. CASE Bind(GenerateCoordinatesWrapper, q) = "none"
  <2>1. a \in GenerateCoordinatesAnswers(q)
    BY <1>4 DEF Answers
  <2>2. PICK box \in boxes : a = Serve(checks, box, p)
    BY <1>2, <2>1
  <2>3. /\ DOMAIN checks = {1}
        /\ checks[1].of = "count" /\ (checks[1].holds <=> p.count \in 1..100)
    <3>1. checks[1].holds <=> p.count \in 1..100
      BY DEF Check, CountCheck
    <3> QED
      BY <3>1 DEF Check, CountCheck
  <2>4. Single(q)
    BY <1>1, <1>4, BindIs
  <2>5. Blames("coordinates", q, checks)
    <3>1. Fine("coordinates", q, "count") <=> p.count \in 1..100
      BY <1>1, <2>4, CountFine DEF MostResults
    <3>2. Fine("coordinates", q, "land_only")
      BY DEF Fine, Legal
    <3>3. Faults("coordinates", q) =
            {n \in {"count", "land_only"} : ~Fine("coordinates", q, n)}
      BY <1>1, <2>4, FaultsAre
    <3> HIDE DEF checks
    <3> QED
      BY <2>3, <3>1, <3>2, <3>3 DEF Blames
  <2>6. p.count = CountAsked(q)
    BY DEF DefaultPtr, CountAsked
  <2>7. Bind(GenerateCoordinatesWrapper, Echo(p)) = "none" =>
          Serve(checks, box, p) \in Answers("coordinates", Echo(p))
    <3>1. /\ DefaultPtr(Echo(p).count, 1) = DefaultPtr(q.count, 1)
          /\ DefaultPtr(Echo(p).land_only, FALSE) = DefaultPtr(q.land_only, FALSE)
      BY DEF Echo, DefaultPtr
    <3>2. GenerateCoordinatesAnswers(Echo(p)) = {Serve(checks, b, p) : b \in boxes}
      BY <3>1, Zenon DEF GenerateCoordinatesAnswers
    <3> HIDE DEF checks, boxes, p
    <3> QED
      BY <2>2, <3>2 DEF Answers
  <2> HIDE DEF checks, p
  <2> QED
    BY <1>1, <1>4, <2>2, <2>3, <2>5, <2>6, <2>7, HandlerKeeps
<1> QED
  BY <1>3, <1>4

-----------------------------------------------------------------------------
(* Colors: the arithmetic of the hue.                                      *)

(* The quotient of n and d lies between lo and hi.                         *)
Quotient(n, d, lo, hi) ==
  /\ n \in Nat /\ d \in Nat /\ d > 0 /\ lo \in Nat /\ hi \in Nat
  /\ lo * d <= n /\ n <= hi * d

(* Truncated, it does so, or is one below.                                 *)
LEMMA TruncatedBounds ==
  ASSUME NEW n, NEW d, NEW lo, NEW hi, Quotient(n, d, lo, hi),
         NEW t \in Truncated(n, d)
  PROVE  /\ t \in Int
         /\ 0 <= t /\ lo - 1 <= t /\ t <= hi
         /\ n < hi * d => t < hi
<1> USE DEF Quotient
<1> DEFINE k == n \div d
<1>1. k \in Int /\ lo <= k /\ k <= hi
  BY SMTT(30)
<1>2. n < hi * d => k < hi
  BY SMTT(30)
<1>3. 0 <= k
  BY SMTT(30)
<1>4. n > 0 /\ n % d = 0 => 1 <= k
  BY SMTT(30)
<1>5. t = k \/ (n > 0 /\ n % d = 0 /\ t = k - 1)
  BY DEF Truncated
<1> HIDE DEF k
<1> QED
  BY <1>1, <1>2, <1>3, <1>4, <1>5

(* The greatest of the channels.                                           *)
LEMMA GreatestIs ==
  ASSUME NEW r \in Int, NEW g \in Int, NEW b \in Int
  PROVE  /\ Greatest(r, g, b) \in {r, g, b}
         /\ \A w \in {r, g, b} : w <= Greatest(r, g, b)
<1>1. \E v \in {r, g, b} : \A w \in {r, g, b} : w <= v
  <2>1. CASE r >= g /\ r >= b
    BY <2>1
  <2>2. CASE g >= r /\ g >= b
    BY <2>2
  <2>3. CASE b >= r /\ b >= g
    BY <2>3
  <2> QED
    BY <2>1, <2>2, <2>3
<1> QED
  BY <1>1, Zenon DEF Greatest

(* The least of the channels.                                              *)
LEMMA LeastIs ==
  ASSUME NEW r \in Int, NEW g \in Int, NEW b \in Int
  PROVE  /\ Least(r, g, b) \in {r, g, b}
         /\ \A w \in {r, g, b} : Least(r, g, b) <= w
<1>1. \E v \in {r, g, b} : \A w \in {r, g, b} : v <= w
  <2>1. CASE r <= g /\ r <= b
    BY <2>1
  <2>2. CASE g <= r /\ g <= b
    BY <2>2
  <2>3. CASE b <= r /\ b <= g
    BY <2>3
  <2> QED
    BY <2>1, <2>2, <2>3
<1> QED
  BY <1>1, Zenon DEF Least

(* The sixth of the circle that the order of the channels says, and the    *)
(* ranges of the components.                                               *)
InSixth(r, g, b, hsl) ==
  LET h == hsl.h
      between(lo, hi) == lo <= h /\ h <= hi
  IN  /\ between(0, 359) /\ hsl.s \in 0..100 /\ hsl.l \in 0..100
      /\ r >= g /\ g >= b => between(0, 60)
      /\ g > r /\ r >= b  => between(59, 120)
      /\ g >= b /\ b > r  => between(119, 180)
      /\ b > g /\ g > r   => between(179, 240)
      /\ b > r /\ r >= g  => between(239, 300)
      /\ r >= b /\ b > g  => between(299, 359)

(* Where the hue is, before it is scaled.                                  *)
LEMMA HueBounds ==
  ASSUME NEW r \in Int, NEW g \in Int, NEW b \in Int,
         NEW s \in Nat, s > 0,
         r - g <= s, r - b <= s, g - r <= s, g - b <= s, b - r <= s, b - g <= s
  PROVE  LET hue == Hue(r, g, b, s)
         IN  /\ hue \in Nat /\ hue < 6 * s
             /\ r >= g /\ g >= b => hue <= s
             /\ g > r /\ r >= b  => s <= hue /\ hue <= 2 * s
             /\ g >= b /\ b > r  => 2 * s <= hue /\ hue <= 3 * s
             /\ b > g /\ g > r   => 3 * s <= hue /\ hue <= 4 * s
             /\ b > r /\ r >= g  => 4 * s <= hue /\ hue <= 5 * s
             /\ r >= b /\ b > g  => 5 * s <= hue
<1> DEFINE hue == Hue(r, g, b, s)
<1>1. \/ r >= g /\ g >= b
      \/ g > r /\ r >= b
      \/ g >= b /\ b > r
      \/ b > g /\ g > r
      \/ b > r /\ r >= g
      \/ r >= b /\ b > g
  OBVIOUS
<1>2. CASE r >= g /\ g >= b
  <2>1. hue = g - b
    BY <1>2 DEF Hue
  <2> QED
    BY <1>2, <2>1
<1>3. CASE g > r /\ r >= b
  <2>1. hue = b - r + 2 * s
    BY <1>3 DEF Hue
  <2> QED
    BY <1>3, <2>1
<1>4. CASE g >= b /\ b > r
  <2>1. hue = b - r + 2 * s
    BY <1>4 DEF Hue
  <2> QED
    BY <1>4, <2>1
<1>5. CASE b > g /\ g > r
  <2>1. hue = r - g + 4 * s
    BY <1>5 DEF Hue
  <2> QED
    BY <1>5, <2>1
<1>6. CASE b > r /\ r >= g
  <2>1. hue = r - g + 4 * s
    BY <1>6 DEF Hue
  <2> QED
    BY <1>6, <2>1
<1>7. CASE r >= b /\ b > g
  <2>1. hue = g - b + 6 * s
    BY <1>7 DEF Hue
  <2> QED
    BY <1>7, <2>1
<1> QED
  BY <1>1, <1>2, <1>3, <1>4, <1>5, <1>6, <1>7

(* What the conversion makes of a color.                                   *)
LEMMA HSLInSixth ==
  ASSUME NEW r \in 0..255, NEW g \in 0..255, NEW b \in 0..255,
         NEW hsl \in RGBToHSL(r, g, b)
  PROVE  InSixth(r, g, b, hsl)
<1> DEFINE greatest == Greatest(r, g, b)
           least    == Least(r, g, b)
           sum      == greatest + least
           spread   == greatest - least
           light    == Truncated(100 * sum, 510)
           scale    == IF sum <= 255 THEN sum ELSE 510 - sum
           hue      == Hue(r, g, b, spread)
<1>1. RGBToHSL(r, g, b) =
        IF spread = 0
        THEN {[h |-> 0, s |-> 0, l |-> l] : l \in light}
        ELSE {[h |-> h, s |-> s, l |-> l] :
                h \in Truncated(60 * hue, spread),
                s \in Truncated(100 * spread, scale),
                l \in light}
  BY DEF RGBToHSL
<1>2. /\ greatest \in {r, g, b} /\ \A w \in {r, g, b} : w <= greatest
      /\ least \in {r, g, b} /\ \A w \in {r, g, b} : least <= w
  BY GreatestIs, LeastIs
<1> HIDE DEF greatest, least
<1>3. /\ greatest \in 0..255 /\ least \in 0..255 /\ least <= greatest
      /\ sum \in Nat /\ sum <= 510 /\ spread \in Nat
  BY <1>2
<1>4. \A l \in light : l \in 0..100
  <2> TAKE l \in light
  <2>1. Quotient(100 * sum, 510, 0, 100)
    BY <1>3 DEF Quotient
  <2>2. l \in Int /\ 0 <= l /\ l <= 100
    <3> HIDE DEF sum
    <3> QED
      BY <2>1, TruncatedBounds
  <2> HIDE DEF light
  <2> QED
    BY <2>2
<1>5. CASE spread = 0
  <2>1. r = g /\ g = b
    BY <1>2, <1>3, <1>5
  <2>2. PICK l \in light : hsl = [h |-> 0, s |-> 0, l |-> l]
    <3> HIDE DEF light, spread, hue, scale
    <3> QED
      BY <1>1, <1>5
  <2>3. hsl.h = 0 /\ hsl.s = 0 /\ hsl.l \in 0..100
    BY <1>4, <2>2
  <2> QED
    BY <2>1, <2>3 DEF InSixth
<1>6. CASE spread # 0
  <2>1. PICK h \in Truncated(60 * hue, spread), s \in Truncated(100 * spread, scale),
             l \in light : hsl = [h |-> h, s |-> s, l |-> l]
    <3> HIDE DEF light, spread, hue, scale
    <3> QED
      BY <1>1, <1>6
  <2>2. hsl.h = h /\ hsl.s = s /\ hsl.l \in 0..100
    BY <1>4, <2>1
  <2>3. s \in 0..100
    <3>1. scale \in Nat /\ scale > 0 /\ spread <= scale
      BY <1>3, <1>6
    <3> HIDE DEF scale, spread
    <3>2. Quotient(100 * spread, scale, 0, 100)
      BY <1>3, <3>1 DEF Quotient
    <3>3. s \in Int /\ 0 <= s /\ s <= 100
      BY <3>2, TruncatedBounds
    <3> QED
      BY <3>3
  <2>4. /\ spread > 0
        /\ r - g <= spread /\ r - b <= spread /\ g - r <= spread
        /\ g - b <= spread /\ b - r <= spread /\ b - g <= spread
    BY <1>2, <1>3, <1>6
  <2>5. /\ hue \in Nat /\ hue < 6 * spread
        /\ r >= g /\ g >= b => hue <= spread
        /\ g > r /\ r >= b  => spread <= hue /\ hue <= 2 * spread
        /\ g >= b /\ b > r  => 2 * spread <= hue /\ hue <= 3 * spread
        /\ b > g /\ g > r   => 3 * spread <= hue /\ hue <= 4 * spread
        /\ b > r /\ r >= g  => 4 * spread <= hue /\ hue <= 5 * spread
        /\ r >= b /\ b > g  => 5 * spread <= hue
    <3> HIDE DEF spread
    <3> QED
      BY <1>3, <2>4, HueBounds
  <2> HIDE DEF hue, spread
  <2>6. 60 * hue \in Nat /\ spread \in Nat
    BY <1>3, <2>5
  <2>7. h \in Int /\ 0 <= h /\ h < 360
    <3>1. Quotient(60 * hue, spread, 0, 360) /\ 60 * hue < 360 * spread
      BY <2>4, <2>5, <2>6 DEF Quotient
    <3> QED
      BY <3>1, TruncatedBounds
  <2>8. ASSUME r >= g, g >= b
        PROVE  h <= 60
    <3>1. Quotient(60 * hue, spread, 0, 60)
      BY <2>4, <2>5, <2>6, <2>8 DEF Quotient
    <3> QED
      BY <2>7, <3>1, TruncatedBounds
  <2>9. ASSUME g > r, r >= b
        PROVE  59 <= h /\ h <= 120
    <3>1. Quotient(60 * hue, spread, 60, 120)
      BY <2>4, <2>5, <2>6, <2>9 DEF Quotient
    <3> QED
      BY <2>7, <3>1, TruncatedBounds
  <2>10. ASSUME g >= b, b > r
        PROVE  119 <= h /\ h <= 180
    <3>1. Quotient(60 * hue, spread, 120, 180)
      BY <2>4, <2>5, <2>6, <2>10 DEF Quotient
    <3> QED
      BY <2>7, <3>1, TruncatedBounds
  <2>11. ASSUME b > g, g > r
        PROVE  179 <= h /\ h <= 240
    <3>1. Quotient(60 * hue, spread, 180, 240)
      BY <2>4, <2>5, <2>6, <2>11 DEF Quotient
    <3> QED
      BY <2>7, <3>1, TruncatedBounds
  <2>12. ASSUME b > r, r >= g
        PROVE  239 <= h /\ h <= 300
    <3>1. Quotient(60 * hue, spread, 240, 300)
      BY <2>4, <2>5, <2>6, <2>12 DEF Quotient
    <3> QED
      BY <2>7, <3>1, TruncatedBounds
  <2>13. ASSUME r >= b, b > g
        PROVE  299 <= h
    <3>1. Quotient(60 * hue, spread, 300, 360)
      BY <2>4, <2>5, <2>6, <2>13 DEF Quotient
    <3> QED
      BY <2>7, <3>1, TruncatedBounds
  <2> QED
    BY <2>2, <2>3, <2>7, <2>8, <2>9, <2>10, <2>11, <2>12, <2>13 DEF InSixth
<1> QED
  BY <1>5, <1>6

(* Colors, whatever is drawn; one in HSL has its hue where it belongs.     *)
LEMMA ColorKept ==
  ASSUME NEW q \in Queries("color"), NEW a \in Answers("color", q)
  PROVE  /\ Kept("color", q, a)
         /\ a.status = 200 /\ a.params.format = "hsl" =>
              InSixth(a.result.r, a.result.g, a.result.b, a.result.hsl)
<1> DEFINE p == [count  |-> DefaultPtr(q.count, 1),
                 format |-> DefaultPtr(q.format, "hex")]
           formats == {"hex", "rgb", "hsl"}
           checks == <<Check("format", p.format \in formats), CountCheck(p.count, 100)>>
           drawn(c) == IF p.format = "hsl" THEN RGBToHSL(c[1], c[2], c[3]) ELSE {<<>>}
           color(c, x) == [r |-> c[1], g |-> c[2], b |-> c[3], hsl |-> x]
           bytes == Channels \X Channels \X Channels
           answers == UNION {{RandomColors(p, color(c, x)) : x \in drawn(c)} : c \in bytes}
           Given2 == \A n \in DOMAIN q : q[n] \in Given(n)
<1>1. /\ Binds(GenerateColorWrapper, q) /\ Given2
      /\ Binds(GenerateColorWrapper, p)
      /\ DOMAIN q = {"format", "count"}
  BY DEF Queries, Binds, GenerateColorWrapper
<1>2. GenerateColorAnswers(q) = answers
  BY Zenon DEF GenerateColorAnswers
<1>3. CASE Bind(GenerateColorWrapper, q) # "none"
  <2>1. a = WriteError(Bind(GenerateColorWrapper, q))
    BY <1>3 DEF Answers
  <2>2. a.status # 200
    BY <2>1 DEF WriteError
  <2> QED
    BY <1>1, <1>3, <2>1, <2>2, BindIs, Misbound
<1>4. CASE Bind(GenerateColorWrapper, q) = "none"
  <2>1. a \in answers
    BY <1>2, <1>4 DEF Answers
  <2>2. PICK c \in bytes : \E y \in drawn(c) : a = RandomColors(p, color(c, y))
    <3> HIDE DEF bytes, drawn, p, color
    <3> QED
      BY <2>1
  <2>3. PICK x \in drawn(c) : a = RandomColors(p, color(c, x))
    BY <2>2
  <2> DEFINE result == color(c, x)
  <2>4. a = Serve(checks, result, p)
    BY <2>3, Zenon DEF RandomColors
  <2> HIDE DEF bytes, drawn, color, answers
  <2>5. /\ DOMAIN checks = {1, 2}
        /\ checks[1].of = "format" /\ (checks[1].holds <=> p.format \in formats)
        /\ checks[2].of = "count" /\ (checks[2].holds <=> p.count \in 1..100)
    <3>1. /\ DOMAIN checks = {1, 2}
          /\ checks[1].of = "format" /\ checks[2].of = "count"
      BY DEF Check, CountCheck
    <3>2. checks[1].holds <=> p.format \in formats
      BY DEF Check
    <3>3. checks[2].holds <=> p.count \in 1..100
      BY DEF Check, CountCheck
    <3> QED
      BY <3>1, <3>2, <3>3
  <2>6. Single(q)
    BY <1>1, <1>4, BindIs
  <2>7. Blames("color", q, checks)
    <3>1. Fine("color", q, "format") <=> p.format \in formats
      <4>1. \A v : Legal("color", q, "format", v) <=> v \in formats
        BY DEF Legal, Formats
      <4> QED
        BY <1>1, <2>6, <4>1, ParameterIs
    <3>2. Fine("color", q, "count") <=> p.count \in 1..100
      <4>1. p.count = DefaultPtr(q.count, 1)
        OBVIOUS
      <4>2. MostResults("color") = 100
        BY DEF MostResults
      <4> HIDE DEF p
      <4> QED
        BY <1>1, <2>6, <4>1, <4>2, CountFine
    <3>3. Faults("color", q) = {n \in {"format", "count"} : ~Fine("color", q, n)}
      BY <1>1, <2>6, FaultsAre
    <3> HIDE DEF checks
    <3> QED
      BY <2>5, <3>1, <3>2, <3>3 DEF Blames
  <2>8. p.count = CountAsked(q)
    BY DEF DefaultPtr, CountAsked
  <2>9. Bind(GenerateColorWrapper, Echo(p)) = "none" =>
          Serve(checks, result, p) \in Answers("color", Echo(p))
    <3>1. /\ DefaultPtr(Echo(p).count, 1) = DefaultPtr(q.count, 1)
          /\ DefaultPtr(Echo(p).format, "hex") = DefaultPtr(q.format, "hex")
      BY DEF Echo, DefaultPtr
    <3>2. GenerateColorAnswers(Echo(p)) = answers
      <4> DEFINE again == [count  |-> DefaultPtr(Echo(p).count, 1),
                           format |-> DefaultPtr(Echo(p).format, "hex")]
                 Colored(pp) ==
                   UNION {{RandomColors(pp, [r |-> d[1], g |-> d[2], b |-> d[3], hsl |-> y]) :
                             y \in IF pp.format = "hsl"
                                   THEN RGBToHSL(d[1], d[2], d[3]) ELSE {<<>>}} :
                          d \in bytes}
      <4>1. again = p
        BY <3>1
      <4>2. GenerateColorAnswers(Echo(p)) = Colored(again)
        BY Zenon DEF GenerateColorAnswers, bytes
      <4>3. answers = Colored(p)
        BY Zenon DEF answers, drawn, color
      <4> HIDE DEF Colored, again, p
      <4> QED
        BY <4>1, <4>2, <4>3
    <3>3. a \in GenerateColorAnswers(Echo(p))
      BY <2>1, <3>2, Zenon
    <3> HIDE DEF checks, answers, p, result
    <3> QED
      BY <2>4, <3>3 DEF Answers
  <2>10. Kept("color", q, a)
    <3> HIDE DEF checks, p, result
    <3>1. DOMAIN checks \subseteq Nat /\ \A i \in DOMAIN checks : checks[i].of # "none"
      BY <2>5
    <3> QED
      BY <1>1, <1>4, <2>4, <2>7, <2>8, <2>9, <3>1, HandlerKeeps
  <2>11. ASSUME a.status = 200, a.params.format = "hsl"
         PROVE  InSixth(a.result.r, a.result.g, a.result.b, a.result.hsl)
    <3>1. Fulfilled(a, result, p)
      <4> HIDE DEF checks, p, result
      <4>1. Handles(GenerateColorWrapper, q, a, checks, result, p)
        <5>1. /\ DOMAIN checks \subseteq Nat
              /\ \A i \in DOMAIN checks : checks[i].of # "none"
          BY <2>5
        <5> QED
          BY <1>1, <1>4, <2>4, <5>1 DEF Handles
      <4> QED
        BY <2>11, <4>1, HandlerServes
    <3>2. a.result = result /\ p.format = "hsl"
      <4> HIDE DEF p, result
      <4> QED
        BY <2>11, <3>1 DEF Fulfilled
    <3>3. x \in RGBToHSL(c[1], c[2], c[3])
      <4> HIDE DEF p
      <4> QED
        BY <2>3, <3>2 DEF drawn
    <3>4. c[1] \in 0..255 /\ c[2] \in 0..255 /\ c[3] \in 0..255
      BY GeneratorsAssumption DEF bytes
    <3>5. /\ a.result.r = c[1] /\ a.result.g = c[2] /\ a.result.b = c[3]
          /\ a.result.hsl = x
      BY <3>2 DEF color
    <3> QED
      BY <3>3, <3>4, <3>5, HSLInSixth
  <2> QED
    BY <2>10, <2>11
<1> QED
  BY <1>3, <1>4

-----------------------------------------------------------------------------
(* All endpoints together.                                                 *)

(* A coin has no parameters to bind, to refuse or to echo.                 *)
LEMMA CoinIs ==
  ASSUME NEW a \in Answers("coin", <<>>)
  PROVE  /\ Matches("coin", <<>>, a)
         /\ a.number = 1 /\ a.single
<1>1. Bind(FlipCoinWrapper, <<>>) = "none"
  <2> DEFINE checks == [i \in DOMAIN FlipCoinWrapper |->
                          Check(FlipCoinWrapper[i], Len(<<>>[FlipCoinWrapper[i]]) <= 1)]
  <2>1. DOMAIN checks = {}
    BY DEF FlipCoinWrapper
  <2>2. Bind(FlipCoinWrapper, <<>>) = FirstFailing(checks)
    BY DEF Bind
  <2> HIDE DEF checks
  <2> QED
    BY <2>1, <2>2 DEF FirstFailing
<1>2. a = FlipCoinAnswer
  BY <1>1 DEF Answers
<1>3. a.status = 200 /\ a.number = 1 /\ a.single
  BY <1>2 DEF FlipCoinAnswer, WriteSingle
<1>4. Faults("coin", <<>>) = {}
  BY DEF Faults
<1> QED
  BY <1>3, <1>4 DEF Matches

(* All other endpoints keep the contract.                                  *)
LEMMA AllKept ==
  ASSUME NEW endpoint \in Endpoints \ {"coin"},
         NEW q \in Queries(endpoint), NEW a \in Answers(endpoint, q)
  PROVE  Kept(endpoint, q, a)
<1>1. CASE endpoint \in {"color", "coordinates", "dice", "lorem"}
  BY <1>1, ColorKept, CoordinatesKept, DiceKept, LoremKept
<1>2. CASE endpoint = "number"
  BY <1>2, IntsKept, FloatsKept
<1>3. CASE endpoint \in {"password", "ssh-key", "uuid", "words"}
  BY <1>3, PasswordKept, SSHKeyKept, UUIDKept, WordsKept
<1> QED
  BY <1>1, <1>2, <1>3 DEF Endpoints

(* Responses are answers, in every reachable state.                        *)
LEMMA Answering == Spec => []AnswerGiven
<1>1. Init => AnswerGiven
  BY DEF Init, AnswerGiven, Answered
<1>2. AnswerGiven /\ [Next]_vars => AnswerGiven'
  <2> SUFFICES ASSUME AnswerGiven, [Next]_vars
               PROVE  AnswerGiven'
    OBVIOUS
  <2>1. ASSUME NEW endpoint \in Endpoints, NEW q \in Queries(endpoint), Ask(endpoint, q)
        PROVE  AnswerGiven'
    BY <2>1 DEF Ask, AnswerGiven, Answered
  <2>2. CASE UNCHANGED vars
    BY <2>2 DEF vars, AnswerGiven, Answered
  <2>3. CASE FlipCoin
    BY <2>1, <2>3 DEF FlipCoin, Endpoints, Queries
  <2>4. CASE GenerateColor
    BY <2>1, <2>4 DEF GenerateColor, Endpoints, Queries
  <2>5. CASE GenerateCoordinates
    BY <2>1, <2>5 DEF GenerateCoordinates, Endpoints, Queries
  <2>6. CASE RollDice
    BY <2>1, <2>6 DEF RollDice, Endpoints, Queries
  <2>7. CASE GenerateLorem
    BY <2>1, <2>7 DEF GenerateLorem, Endpoints, Queries
  <2>8. CASE GenerateNumber
    BY <2>1, <2>8 DEF GenerateNumber, Endpoints, Queries
  <2>9. CASE GeneratePassword
    BY <2>1, <2>9 DEF GeneratePassword, Endpoints, Queries
  <2>10. CASE GenerateSSHKey
    BY <2>1, <2>10 DEF GenerateSSHKey, Endpoints, Queries
  <2>11. CASE GenerateUUID
    BY <2>1, <2>11 DEF GenerateUUID, Endpoints, Queries
  <2>12. CASE GenerateWords
    BY <2>1, <2>12 DEF GenerateWords, Endpoints, Queries
  <2> QED
    BY <2>2, <2>3, <2>4, <2>5, <2>6, <2>7, <2>8, <2>9, <2>10, <2>11, <2>12 DEF Next
<1> QED
  BY <1>1, <1>2, PTL DEF Spec

-----------------------------------------------------------------------------
(* The theorems.                                                           *)

(* Binding, defaults and validation accept what the contract allows and    *)
(* refuse the rest, blaming a parameter at fault (openapi.gen.go:1311-1907 *)
(* and the services).                                                      *)
THEOREM ContractIsKept == Spec => []AnswersMatchContract
<1>1. AnswerGiven => AnswersMatchContract
  <2> SUFFICES ASSUME AnswerGiven, Answered
               PROVE  Matches(request.endpoint, request.query, response)
    BY Zenon DEF AnswersMatchContract, Matches
  <2>1. CASE request.endpoint = "coin"
    <3>1. request.query = <<>>
      BY <2>1 DEF AnswerGiven, Queries
    <3> QED
      BY <2>1, <3>1, CoinIs DEF AnswerGiven
  <2>2. CASE request.endpoint # "coin"
    BY <2>2, AllKept DEF AnswerGiven, Kept
  <2> QED
    BY <2>1, <2>2
<1> QED
  BY <1>1, Answering, PTL

(* As many results as were asked for, one of them alone (respond.go:131).  *)
THEOREM CountIsKept == Spec => []ShapeFollowsCount
<1>1. AnswerGiven => ShapeFollowsCount
  <2> SUFFICES ASSUME AnswerGiven, Served
               PROVE  LET asked == IF \/ request.endpoint = "coin"
                                      \/ request.query.count = <<>>
                                   THEN 1 ELSE request.query.count[1]
                      IN  response.number = asked /\ (response.single <=> asked = 1)
    BY Zenon DEF ShapeFollowsCount
  <2>1. CASE request.endpoint = "coin"
    <3>1. request.query = <<>>
      BY <2>1 DEF AnswerGiven, Queries, Served
    <3>2. response.number = 1 /\ response.single
      BY <2>1, <3>1, CoinIs DEF AnswerGiven, Served
    <3> QED
      BY <2>1, <3>2
  <2>2. CASE request.endpoint # "coin"
    <3>1. Shaped(request.query, response)
      BY <2>2, AllKept DEF AnswerGiven, Kept, Served
    <3> QED
      BY <2>2, <3>1, Zenon DEF Shaped, CountAsked
  <2> QED
    BY <2>1, <2>2
<1> QED
  BY <1>1, Answering, PTL

(* IntN is never asked for less than one number or for more than it can    *)
(* give (number.go:25), and both bounds can be drawn.                      *)
THEOREM BothEndsAreReached == Spec => []NumbersReachBothEnds
<1>1. AnswerGiven => NumbersReachBothEnds
  <2> SUFFICES ASSUME AnswerGiven, Served, request.endpoint = "number"
               PROVE  BothEnds(response)
    BY SMT DEF NumbersReachBothEnds, BothEnds
  <2> QED
    BY IntsKept, FloatsKept DEF AnswerGiven, Served
<1> QED
  BY <1>1, Answering, PTL

(* The echo of a response, sent as a query, is answered alike              *)
(* (server.go:68-364): what was resolved is not resolved again.            *)
THEOREM EchoIsKept == Spec => []EchoIsReproducible
<1>1. AnswerGiven => EchoIsReproducible
  <2> SUFFICES ASSUME AnswerGiven, Served, request.endpoint # "coin"
               PROVE  response \in Answers(request.endpoint, Echo(response.params))
    BY Zenon DEF EchoIsReproducible, Echo
  <2> QED
    BY AllKept DEF AnswerGiven, Kept, Served
<1> QED
  BY <1>1, Answering, PTL

(* The hue is where the order of the channels says, for all 2^24 colors    *)
(* (color.go:51-98).                                                       *)
THEOREM HueIsInOrder == Spec => []HueMatchesOrder
<1>1. AnswerGiven => HueMatchesOrder
  <2> SUFFICES ASSUME AnswerGiven, Served, request.endpoint = "color",
                      response.params.format = "hsl"
               PROVE  InSixth(response.result.r, response.result.g,
                              response.result.b, response.result.hsl)
    BY Zenon DEF HueMatchesOrder, InSixth
  <2> QED
    BY ColorKept DEF AnswerGiven, Served
<1> QED
  BY <1>1, Answering, PTL

=============================================================================
