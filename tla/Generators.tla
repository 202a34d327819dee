------------------------------ MODULE Generators ------------------------------
(***************************************************************************)
(* The random endpoints: binding the query (api/internal/gen), resolving   *)
(* defaults (api/internal/handler/server.go), validating and drawing       *)
(* (api/internal/service) and shaping the response (respond.go), as        *)
(* operators on a query, and one action per endpoint.  A draw stands for   *)
(* all it can be: the result holds the least and the greatest of them.     *)
(***************************************************************************)
EXTENDS Integers, Sequences, FiniteSets

CONSTANTS
  Inputs,    (* Values tried for each parameter, by name.                  *)
  Channels   (* Values tried for the red, green and blue of a color.       *)

(* Numbers are integers, flags are booleans, a channel is a byte.          *)
ASSUME GeneratorsAssumption ==
  /\ \A n \in {"count", "sides", "paragraphs", "sentences", "min", "max",
               "length", "bits", "words"} : Inputs[n] \subseteq Int
  /\ \A n \in {"land_only", "float", "uppercase", "lowercase", "digits",
               "symbols", "capitalize"} : Inputs[n] \subseteq BOOLEAN
  /\ Channels \subseteq 0..255

VARIABLES
  request,   (* The endpoint called, and the query.                        *)
  response   (* What it answered.                                          *)

vars == <<request, response>>

(* A text and its len, in bytes.                                           *)
Symbol(text) == [text |-> text, bytes |-> 1]

NoText == [text |-> "", bytes |-> 0]

(* What a query says of a parameter is the sequence of the values it gives *)
(* it.  One that does not parse reads like one that is given twice.        *)
Given(n) == {<<>>} \cup {<<v>> : v \in Inputs[n]}
              \cup {<<v, v>> : v \in {CHOOSE v \in Inputs[n] : TRUE}}

-----------------------------------------------------------------------------
(* ServerInterfaceWrapper: parameters in the order they are bound in.      *)

FlipCoinWrapper            == <<>>
GenerateColorWrapper       == <<"format", "count">>
GenerateCoordinatesWrapper == <<"count", "land_only">>
RollDiceWrapper            == <<"sides", "count">>
GenerateLoremWrapper       == <<"paragraphs", "sentences", "count">>
GenerateNumberWrapper      == <<"min", "max", "count", "float">>
GeneratePasswordWrapper    == <<"length", "uppercase", "lowercase", "digits",
                                "symbols", "count">>
GenerateSSHKeyWrapper      == <<"type", "bits", "comment", "count">>
GenerateUUIDWrapper        == <<"count", "format">>
GenerateWordsWrapper       == <<"style", "words", "separator", "capitalize",
                                "count">>

(* The first entry of a sequence of checks that does not hold.             *)
FirstFailing(checks) ==
  LET failing == {i \in DOMAIN checks : ~checks[i].holds}
  IN  IF failing = {} THEN "none"
      ELSE checks[CHOOSE i \in failing : \A j \in failing : i <= j].of

Check(name, holds) == [of |-> name, holds |-> holds]

Bind(wrapper, query) ==
  FirstFailing([i \in DOMAIN wrapper |->
                  Check(wrapper[i], Len(query[wrapper[i]]) <= 1)])

-----------------------------------------------------------------------------
(* respond.go.                                                             *)

DefaultPtr(given, default) == IF given = <<>> THEN default ELSE given[1]

WriteError(blame) == [status |-> 400, blame |-> blame]

WriteSingle(result, params) ==
  [status |-> 200, single |-> TRUE, number |-> 1, result |-> result,
   params |-> params]

WriteMultiple(number, result, params) ==
  [status |-> 200, single |-> FALSE, number |-> number, result |-> result,
   params |-> params]

(* Faulty variant: two results make a single response.                     *)
WriteResultsUpToTwo(number, result, params) ==
  IF number <= 2 THEN WriteSingle(result, params)
  ELSE WriteMultiple(number, result, params)

WriteResults(number, result, params) ==
  IF number = 1 THEN WriteSingle(result, params)
  ELSE WriteMultiple(number, result, params)

(* Faulty variant: the echo leaves the count at its default.               *)
ServeWithoutCount(checks, result, params) ==
  LET blame == FirstFailing(checks)
  IN  IF blame # "none" THEN WriteError(blame)
      ELSE WriteResults(params.count, result, [params EXCEPT !.count = 1])

(* A handler: the first failing check is blamed, or there are results.     *)
Serve(checks, result, params) ==
  LET blame == FirstFailing(checks)
  IN  IF blame # "none" THEN WriteError(blame)
      ELSE WriteResults(params.count, result, params)

(* Faulty variant: none is a number of results.                            *)
CountCheckFromZero(count, most) == Check("count", count \in 0..most)

CountCheck(count, most) == Check("count", count \in 1..most)

-----------------------------------------------------------------------------
(* Dice and coins.                                                         *)

ValidSides == {4, 6, 8, 10, 12, 20, 100}

RollDiceService(p) ==
  Serve(<<Check("sides", p.sides \in ValidSides), CountCheck(p.count, 100)>>,
        [lowest |-> 1, highest |-> p.sides], p)

RollDiceAnswer(q) ==
  RollDiceService([sides |-> DefaultPtr(q.sides, 6),
                   count |-> DefaultPtr(q.count, 1)])

FlipCoinAnswer == WriteSingle([faces |-> {"heads", "tails"}], <<>>)

-----------------------------------------------------------------------------
(* Numbers.                                                                *)

MaxBound == 1000000000

ValidateNumberParams(p) ==
  <<Check("bounds", p.min >= -MaxBound /\ p.max <= MaxBound),
    Check("bounds", p.min <= p.max),
    CountCheck(p.count, 100)>>

(* The argument of IntN, which panics on one that is not positive; faulty  *)
(* variant: the upper bound is left out.                                   *)
SpanExclusive(lo, hi) == hi - lo

Span(lo, hi) == hi - lo + 1

RandomInts(p) ==
  Serve(ValidateNumberParams(p),
        [span |-> Span(p.min, p.max), lowest |-> p.min,
         highest |-> p.min + (Span(p.min, p.max) - 1)], p)

(* No bounds are checked here; the greatest float may round up to max.     *)
RandomFloats(p) ==
  Serve(<<Check("bounds", p.min <= p.max), CountCheck(p.count, 100)>>,
        [lowest |-> p.min, highest |-> p.max], p)

GenerateNumberAnswer(q) ==
  LET p == [min   |-> DefaultPtr(q.min, 0),
            max   |-> DefaultPtr(q.max, 100),
            count |-> DefaultPtr(q.count, 1),
            float |-> DefaultPtr(q.float, FALSE)]
  IN  IF p.float THEN RandomFloats(p) ELSE RandomInts(p)

-----------------------------------------------------------------------------
(* UUIDs.                                                                  *)

(* Dashes and prefix, of all forms of a UUID.                              *)
UUIDForm(format) == CASE format = "standard"  -> [dashes |-> 4, urn |-> FALSE]
                      [] format = "no-dashes" -> [dashes |-> 0, urn |-> FALSE]
                      [] format = "urn"       -> [dashes |-> 4, urn |-> TRUE]
                      [] OTHER                -> [dashes |-> 0, urn |-> FALSE]

GenerateUUIDs(p) ==
  Serve(<<Check("format", p.format \in {"standard", "no-dashes", "urn"}),
          CountCheck(p.count, 100)>>, UUIDForm(p.format), p)

GenerateUUIDAnswer(q) ==
  GenerateUUIDs([count  |-> DefaultPtr(q.count, 1),
                 format |-> DefaultPtr(q.format, "standard")])

-----------------------------------------------------------------------------
(* Colors.                                                                 *)

(* int(100 * n / d) of floats: where the quotient is exact the float may   *)
(* fall just short of it.                                                  *)
Truncated(n, d) == {n \div d} \cup
                     (IF n > 0 /\ n % d = 0 THEN {n \div d - 1} ELSE {})

Greatest(r, g, b) == CHOOSE v \in {r, g, b} : \A w \in {r, g, b} : w <= v
Least(r, g, b) == CHOOSE v \in {r, g, b} : \A w \in {r, g, b} : v <= w

(* Hue in sixths of the circle, times the spread of the channels.  Faulty  *)
(* variant: green is taken before red.                                     *)
HueGreenFirst(r, g, b, spread) ==
  CASE g >= r /\ g >= b          -> b - r + 2 * spread
    [] r > g /\ r >= b /\ g >= b -> g - b
    [] r > g /\ r >= b /\ g < b  -> g - b + spread
    [] OTHER                     -> r - g + 4 * spread

Hue(r, g, b, spread) ==
  CASE r >= g /\ r >= b /\ g >= b -> g - b
    [] r >= g /\ r >= b /\ g < b  -> g - b + 6 * spread
    [] g > r /\ g >= b            -> b - r + 2 * spread
    [] OTHER                      -> r - g + 4 * spread

(* All that rounding can make of a color.                                  *)
RGBToHSL(r, g, b) ==
  LET greatest == Greatest(r, g, b)
      least    == Least(r, g, b)
      sum      == greatest + least
      spread   == greatest - least
      light    == Truncated(100 * sum, 510)
  IN  IF spread = 0
      THEN {[h |-> 0, s |-> 0, l |-> l] : l \in light}
      ELSE {[h |-> h, s |-> s, l |-> l] :
              h \in Truncated(60 * Hue(r, g, b, spread), spread),
              s \in Truncated(100 * spread, IF sum <= 255 THEN sum ELSE 510 - sum),
              l \in light}

RandomColors(p, color) ==
  Serve(<<Check("format", p.format \in {"hex", "rgb", "hsl"}),
          CountCheck(p.count, 100)>>, color, p)

GenerateColorAnswers(q) ==
  LET p == [count  |-> DefaultPtr(q.count, 1),
            format |-> DefaultPtr(q.format, "hex")]
      hsl(c) == IF p.format = "hsl" THEN RGBToHSL(c[1], c[2], c[3]) ELSE {<<>>}
  IN  UNION {{RandomColors(p, [r |-> c[1], g |-> c[2], b |-> c[3], hsl |-> x]) :
                x \in hsl(c)} : c \in Channels \X Channels \X Channels}

-----------------------------------------------------------------------------
(* Coordinates: the box that a draw comes from.                            *)

World == [south |-> -90, north |-> 90, west |-> -180, east |-> 180]

Box(south, north, west, east) ==
  [south |-> south, north |-> north, west |-> west, east |-> east]

(* The loop returns in its first iteration.                                *)
LandBoxes == {Box(35, 72, -10, 60), Box(-35, 38, -18, 52), Box(5, 78, 60, 180),
              Box(-45, -10, 110, 155), Box(15, 75, -170, -50),
              Box(-55, 15, -82, -34)}

GenerateCoordinatesAnswers(q) ==
  LET p == [count     |-> DefaultPtr(q.count, 1),
            land_only |-> DefaultPtr(q.land_only, FALSE)]
  IN  {Serve(<<CountCheck(p.count, 100)>>, box, p) :
         box \in IF p.land_only THEN LandBoxes ELSE {World}}

-----------------------------------------------------------------------------
(* Passwords.                                                              *)

Sets == {"uppercase", "lowercase", "digits", "symbols"}

GeneratePasswords(p) ==
  Serve(<<Check("sets", \E set \in Sets : p[set]),
          Check("length", p.length \in 8..128),
          CountCheck(p.count, 100)>>,
        [length |-> p.length, sets |-> {set \in Sets : p[set]}], p)

GeneratePasswordAnswer(q) ==
  GeneratePasswords([length    |-> DefaultPtr(q.length, 16),
                     uppercase |-> DefaultPtr(q.uppercase, TRUE),
                     lowercase |-> DefaultPtr(q.lowercase, TRUE),
                     digits    |-> DefaultPtr(q.digits, TRUE),
                     symbols   |-> DefaultPtr(q.symbols, TRUE),
                     count     |-> DefaultPtr(q.count, 1)])

-----------------------------------------------------------------------------
(* Words.                                                                  *)

StyleSeparator(style) == CASE style = "docker" -> Symbol("_")
                           [] style = "ubuntu" -> Symbol(" ")
                           [] OTHER            -> Symbol("-")

RandomWords(p) ==
  Serve(<<Check("style", p.style \in {"random", "docker", "ubuntu"}),
          Check("separator", p.separator.bytes <= 5),
          Check("words", p.style = "random" => p.words \in 1..20),
          CountCheck(p.count, 100)>>,
        [words      |-> IF p.style = "random" THEN p.words ELSE 2,
         separator  |-> p.separator,
         capitalize |-> p.capitalize], p)

GenerateWordsAnswer(q) ==
  LET style == DefaultPtr(q.style, "random")
  IN  RandomWords([style      |-> style,
                   words      |-> DefaultPtr(q.words, 4),
                   separator  |-> DefaultPtr(q.separator, StyleSeparator(style)),
                   capitalize |-> DefaultPtr(q.capitalize, style = "ubuntu"),
                   count      |-> DefaultPtr(q.count, 1)])

-----------------------------------------------------------------------------
(* Lorem ipsum.                                                            *)

(* The texts, each with its paragraphs, the bounds on the sentences of a   *)
(* paragraph, and whether it opens with the classic sentence.              *)
LoremTexts(p) ==
  [i \in 1..p.count |->
     IF p.sentences > 0
     THEN [paragraphs |-> 1, least |-> p.sentences, most |-> p.sentences,
           opener |-> i = 1]
     ELSE [paragraphs |-> p.paragraphs, least |-> 3, most |-> 7,
           opener |-> i = 1]]

RandomLorem(p) ==
  Serve(<<CountCheck(p.count, 10),
          Check("sentences", p.sentences <= 50),
          Check("paragraphs", p.sentences <= 0 => p.paragraphs \in 1..10)>>,
        LoremTexts(p), p)

GenerateLoremAnswer(q) ==
  RandomLorem([count      |-> DefaultPtr(q.count, 1),
               paragraphs |-> DefaultPtr(q.paragraphs, 1),
               sentences  |-> DefaultPtr(q.sentences, 0)])

-----------------------------------------------------------------------------
(* SSH keys.                                                               *)

(* The size of the key and whether its public line ends with the comment.  *)
GenerateSSHKeyPair(p) ==
  [bits      |-> IF p.type = "rsa" THEN p.bits ELSE 256,
   commented |-> p.comment # NoText]

GenerateSSHKeys(p) ==
  Serve(<<Check("type", p.type \in {"ed25519", "rsa"}),
          Check("bits", p.type = "rsa" => p.bits \in {2048, 4096}),
          Check("comment", p.comment.bytes <= 128),
          CountCheck(p.count, 5)>>, GenerateSSHKeyPair(p), p)

GenerateSSHKeyAnswer(q) ==
  GenerateSSHKeys([type    |-> DefaultPtr(q.type, "ed25519"),
                   bits    |-> DefaultPtr(q.bits, 2048),
                   comment |-> DefaultPtr(q.comment, NoText),
                   count   |-> DefaultPtr(q.count, 1)])

-----------------------------------------------------------------------------
(* The endpoints.                                                          *)

(* What an endpoint may answer.                                            *)
Answers(endpoint, q) ==
  LET bound(wrapper, answers) ==
        LET blame == Bind(wrapper, q)
        IN  IF blame # "none" THEN {WriteError(blame)} ELSE answers
  IN  CASE endpoint = "coin"  -> bound(FlipCoinWrapper, {FlipCoinAnswer})
        [] endpoint = "color" -> bound(GenerateColorWrapper, GenerateColorAnswers(q))
        [] endpoint = "coordinates" ->
             bound(GenerateCoordinatesWrapper, GenerateCoordinatesAnswers(q))
        [] endpoint = "dice"   -> bound(RollDiceWrapper, {RollDiceAnswer(q)})
        [] endpoint = "lorem"  -> bound(GenerateLoremWrapper, {GenerateLoremAnswer(q)})
        [] endpoint = "number" -> bound(GenerateNumberWrapper, {GenerateNumberAnswer(q)})
        [] endpoint = "password" ->
             bound(GeneratePasswordWrapper, {GeneratePasswordAnswer(q)})
        [] endpoint = "ssh-key" -> bound(GenerateSSHKeyWrapper, {GenerateSSHKeyAnswer(q)})
        [] endpoint = "uuid"    -> bound(GenerateUUIDWrapper, {GenerateUUIDAnswer(q)})
        [] endpoint = "words"   -> bound(GenerateWordsWrapper, {GenerateWordsAnswer(q)})

Init == request = <<>> /\ response = <<>>

Ask(endpoint, q) ==
  /\ request = <<>>
  /\ request' = [endpoint |-> endpoint, query |-> q]
  /\ response' \in Answers(endpoint, q)

FlipCoin == Ask("coin", <<>>)

GenerateColor ==
  \E q \in [format : Given("format"), count : Given("count")] : Ask("color", q)

GenerateCoordinates ==
  \E q \in [count : Given("count"), land_only : Given("land_only")] :
    Ask("coordinates", q)

RollDice ==
  \E q \in [sides : Given("sides"), count : Given("count")] : Ask("dice", q)

GenerateLorem ==
  \E q \in [paragraphs : Given("paragraphs"), sentences : Given("sentences"),
            count : Given("count")] : Ask("lorem", q)

GenerateNumber ==
  \E q \in [min : Given("min"), max : Given("max"), count : Given("count"),
            float : Given("float")] : Ask("number", q)

GeneratePassword ==
  \E q \in [length : Given("length"), uppercase : Given("uppercase"),
            lowercase : Given("lowercase"), digits : Given("digits"),
            symbols : Given("symbols"), count : Given("count")] :
    Ask("password", q)

GenerateSSHKey ==
  \E q \in [type : Given("type"), bits : Given("bits"),
            comment : Given("comment"), count : Given("count")] :
    Ask("ssh-key", q)

GenerateUUID ==
  \E q \in [count : Given("count"), format : Given("format")] : Ask("uuid", q)

GenerateWords ==
  \E q \in [style : Given("style"), words : Given("words"),
            separator : Given("separator"), capitalize : Given("capitalize"),
            count : Given("count")] : Ask("words", q)

Next == \/ FlipCoin \/ GenerateColor \/ GenerateCoordinates \/ RollDice
        \/ GenerateLorem \/ GenerateNumber \/ GeneratePassword
        \/ GenerateSSHKey \/ GenerateUUID \/ GenerateWords

Spec == Init /\ [][Next]_vars

-----------------------------------------------------------------------------
(* The contract, from docs/reference/openapi.yaml.                         *)

MostResults(endpoint) == CASE endpoint = "lorem"   -> 10
                           [] endpoint = "ssh-key" -> 5
                           [] OTHER                -> 100

Formats(endpoint) == IF endpoint = "color" THEN {"hex", "rgb", "hsl"}
                     ELSE {"standard", "no-dashes", "urn"}

(* Whether value v of parameter n is legal in query q.                     *)
Legal(endpoint, q, n, v) ==
  CASE n = "sides"      -> v \in {4, 6, 8, 10, 12, 20, 100}
    [] n = "count"      -> 1 <= v /\ v <= MostResults(endpoint)
    [] n = "format"     -> v \in Formats(endpoint)
    [] n = "length"     -> 8 <= v /\ v <= 128
    [] n = "style"      -> v \in {"random", "docker", "ubuntu"}
    [] n = "words"      -> (1 <= v /\ v <= 20) \/ q.style \notin {<<>>, <<"random">>}
    [] n = "separator"  -> v.bytes <= 5
    [] n = "sentences"  -> v <= 50
    [] n = "paragraphs" -> (1 <= v /\ v <= 10) \/ (q.sentences # <<>> /\ q.sentences[1] > 0)
    [] n = "type"       -> v \in {"ed25519", "rsa"}
    [] n = "bits"       -> v \in {2048, 4096} \/ q.type # <<"rsa">>
    [] n = "comment"    -> v.bytes <= 128
    [] OTHER            -> TRUE

BoundsAgree(q) ==
  LET lo == IF q.min = <<>> THEN 0 ELSE q.min[1]
      hi == IF q.max = <<>> THEN 100 ELSE q.max[1]
  IN  /\ lo <= hi
      /\ (-1000000000 <= lo /\ hi <= 1000000000) \/ q.float = <<TRUE>>

(* What may be blamed for a 400.                                           *)
Faults(endpoint, q) ==
  LET unbound == {n \in DOMAIN q : Len(q[n]) > 1}
      illegal == {n \in DOMAIN q : q[n] # <<>> /\ ~Legal(endpoint, q, n, q[n][1])}
  IN  IF unbound # {} THEN unbound
      ELSE illegal
           \cup {f \in {"bounds"} : endpoint = "number" /\ ~BoundsAgree(q)}
           \cup {f \in {"sets"} : endpoint = "password" /\
                                  \A set \in Sets : q[set] = <<FALSE>>}

Answered == request # <<>>

Served == Answered /\ response.status = 200

-----------------------------------------------------------------------------
(* Properties.                                                             *)

(* Binding (openapi.gen.go:1311-1907), defaults and validation together    *)
(* accept what the OpenAPI document allows and refuse the rest, blaming a  *)
(* parameter that is at fault.                                             *)
AnswersMatchContract ==
  Answered =>
    LET faults == Faults(request.endpoint, request.query)
    IN  IF faults = {} THEN response.status = 200
        ELSE response.status = 400 /\ response.blame \in faults

(* Whoever asks for one gets "result", whoever asks for more "results",    *)
(* and as many (respond.go:131-144): three layers hand the count on.       *)
ShapeFollowsCount ==
  Served =>
    LET asked == IF request.endpoint = "coin" \/ request.query.count = <<>>
                 THEN 1 ELSE request.query.count[1]
    IN  response.number = asked /\ (response.single <=> asked = 1)

(* For every accepted pair of bounds the argument of IntN (number.go:25)   *)
(* is positive, fits an int of 32 bits, and lets both bounds be drawn.     *)
NumbersReachBothEnds ==
  Served /\ request.endpoint = "number" =>
    /\ response.result.lowest = response.params.min
    /\ response.result.highest = response.params.max
    /\ ~response.params.float => /\ 1 <= response.result.span
                                 /\ response.result.span <= 2147483647

(* "meta echoes the resolved request parameters ... for reproducibility"   *)
(* (openapi.yaml:24-26): the echo, sent as a query, is answered alike.     *)
EchoIsReproducible ==
  Served /\ request.endpoint # "coin" =>
    response \in Answers(request.endpoint,
                        [n \in DOMAIN response.params |-> <<response.params[n]>>])

(* The hue is in the sixth of the circle that the order of the channels    *)
(* says (color.go:75-97), and no component leaves its range.               *)
HueMatchesOrder ==
  Served /\ request.endpoint = "color" /\ response.params.format = "hsl" =>
    LET r == response.result.r
        g == response.result.g
        b == response.result.b
        h == response.result.hsl.h
        between(lo, hi) == lo <= h /\ h <= hi
    IN  /\ between(0, 359) /\ response.result.hsl.s \in 0..100
        /\ response.result.hsl.l \in 0..100
        /\ r >= g /\ g >= b => between(0, 60)
        /\ g > r /\ r >= b  => between(59, 120)
        /\ g >= b /\ b > r  => between(119, 180)
        /\ b > g /\ g > r   => between(179, 240)
        /\ b > r /\ r >= g  => between(239, 300)
        /\ r >= b /\ b > g  => between(299, 359)

(* "default: 4096" (openapi.yaml:486): the size of an RSA key whose size   *)
(* is left to the service.                                                 *)
OmittedMeansDefault ==
  Served /\ request.endpoint = "ssh-key" =>
    (request.query.type = <<"rsa">> /\ request.query.bits = <<>>
       => response.result.bits = 4096)

=============================================================================
