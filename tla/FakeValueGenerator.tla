------------------------ MODULE FakeValueGenerator ------------------------
(***************************************************************************)
(* The generators of fake values: a linear one, which never ends, and one  *)
(* that replays the events of a JSON file a number of times.               *)
(*                                                                         *)
(* A generator is its configuration and its position.  nextEvent gives an  *)
(* event whose delay counts from now, and leaves the generator that        *)
(* Advanced describes.  Values are integers: the units of a float.         *)
(***************************************************************************)
EXTENDS Integers, Sequences

Linear(prop, initialValue, dispersion, increment, interval) ==
    [kind |-> "linear", prop |-> prop, initialValue |-> initialValue,
     currentValue |-> initialValue, dispersion |-> dispersion,
     increment |-> increment, interval |-> interval]

\* parseFakeValueJson keeps, in order, the objects that have every field and
\* a supported type.
ParsedEvents(file) == SelectSeq(file, LAMBDA e : e.complete)

\* iterations = -1 repeats the file for ever.
JsonFile(file, iterations) ==
    [kind |-> "json", events |-> ParsedEvents(file), index |-> 1,
     mNumOfIterations |-> iterations]

hasNext(g) ==
    g.kind = "linear" \/ (g.mNumOfIterations # 0 /\ g.events # <<>>)

LinearValue(g) ==
    LET value == g.currentValue + g.increment
    IN  IF value > g.initialValue + g.dispersion
        THEN g.initialValue - g.dispersion ELSE value

\* Every event but the first of a round waits for the difference of the
\* recorded times.
JsonDelay(g) ==
    IF g.index = 1 THEN 0
    ELSE g.events[g.index].timestamp - g.events[g.index - 1].timestamp

nextEvent(g) ==
    IF g.kind = "linear"
    THEN [prop |-> g.prop, areaId |-> "0", value |-> <<LinearValue(g)>>,
          delay |-> g.interval]
    ELSE [prop |-> g.events[g.index].prop, areaId |-> g.events[g.index].areaId,
          value |-> g.events[g.index].value, delay |-> JsonDelay(g)]

Advanced(g) ==
    IF g.kind = "linear" THEN [g EXCEPT !.currentValue = LinearValue(g)]
    ELSE IF g.index < Len(g.events) THEN [g EXCEPT !.index = @ + 1]
    ELSE [g EXCEPT !.index = 1,
                   !.mNumOfIterations = IF @ > 0 THEN @ - 1 ELSE @]

=============================================================================
