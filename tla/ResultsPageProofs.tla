------------------------- MODULE ResultsPageProofs -------------------------
(***************************************************************************)
(* Proofs about the results page, over any data, any dimensions and a      *)
(* history of any length: what is on the screen is what is selected, and   *)
(* an entry of the history holds the selection it was made with, also      *)
(* after selections of which the summary throws.                           *)
(***************************************************************************)
EXTENDS ResultsPage, SequenceTheorems, TLAPS

-----------------------------------------------------------------------------
(* The invariant *)

Classes == {"active", "passive", "off"}

\* Links that tell the selected options from the others; a flag is not passive.
Highlights(lk, s) ==
    /\ lk \in [Option \union LinkDims -> Classes]
    /\ \A o \in Option : lk[o] # "off" <=> s.on[o]
    /\ \A o \in Option \ LinkOptions : lk[o] # "passive"

\* The passive ones are those without an entry.
PassiveAmong(lk, s, rows) ==
    \A o \in LinkOptions :
        lk[o] = "passive" <=> s.on[o] /\ \A e \in rows : o \notin Traits[e]

DetailsOf(s) == [metric: {s.metric}, box: {s.queries}, allBox: BOOLEAN]

\* What the last rendering, and the checkboxes since, have put on the screen.
ScreenInv ==
    /\ Highlights(link, selectors)
    /\ metricLink = selectors.metric
    /\ hidden = Hidden(selectors)
    /\ filtered = Filtered(selectors)
    /\ filtered # {} => summary = Summary(selectors, filtered)
    /\ details # Null => /\ filtered # {}
                         /\ details \in DetailsOf(selectors)
                         /\ PassiveAmong(link, selectors, filtered)
    /\ Completes(selectors, filtered) => details # Null

Hashes == {NoHash} \union {encodeState(s) : s \in Selectors}
EntryMadeBy(s) == [state |-> s, hash |-> encodeState(s)]
HistoryEntries ==
    {EntryMadeBy(s) : s \in Selectors} \union [state: {Null}, hash: Hashes]

HistoryInv ==
    /\ history \in Seq(HistoryEntries)
    /\ at \in DOMAIN history
    /\ EntryHoldsSelection

PageInv == selectors \in Selectors /\ ScreenInv /\ HistoryInv

-----------------------------------------------------------------------------
(* The URL *)

\* A map is read back from its smaller half, whichever that is.
LEMMA MapIsReadBack ==
    ASSUME NEW f, NEW x \in DOMAIN f, f[x] \in BOOLEAN
    PROVE  Decode(EncodeMap(f), x) = f[x]
<1> DEFINE selected == {y \in DOMAIN f : f[y]}
<1>1. x \in selected <=> f[x]
    OBVIOUS
<1>2. EncodeMap(f) \in {[sign |-> "+", names |-> selected],
                        [sign |-> "-", names |-> DOMAIN f \ selected]}
    BY DEF EncodeMap
<1> HIDE DEF selected
<1>3. CASE EncodeMap(f) = [sign |-> "+", names |-> selected]
    <2>1. EncodeMap(f).sign = "+" /\ EncodeMap(f).names = selected
        BY <1>3
    <2> QED
        BY <2>1, <1>1 DEF Decode
<1>4. CASE EncodeMap(f) = [sign |-> "-", names |-> DOMAIN f \ selected]
    <2>1. EncodeMap(f).sign = "-" /\ EncodeMap(f).names = DOMAIN f \ selected
        BY <1>4
    <2> QED
        BY <2>1, <1>1 DEF Decode
<1> QED
    BY <1>2, <1>3, <1>4

\* decodeState undoes encodeState.
LEMMA StateIsReadBack ==
    ASSUME NEW s \in Selectors
    PROVE  decodeState(encodeState(s)) = s
<1> DEFINE h == encodeState(s)
           part(d) == [o \in OptionsOf[d] |-> s.on[o]]
<1>1. s.on \in [Option -> BOOLEAN] /\ s.queries \in [Query -> BOOLEAN]
      /\ s = [on |-> s.on, metric |-> s.metric, queries |-> s.queries]
    BY DEF Selectors
<1>2. ASSUME NEW o \in Option
      PROVE  Decode(h.on[DimOf[o]], o) = s.on[o]
    <2>1. DimOf[o] \in Dims /\ o \in OptionsOf[DimOf[o]]
        BY DimAssumption DEF OptionsOf
    <2>2. h.on[DimOf[o]] = EncodeMap(part(DimOf[o]))
        BY <2>1 DEF encodeState
    <2>3. o \in DOMAIN part(DimOf[o]) /\ part(DimOf[o])[o] = s.on[o]
        BY <2>1
    <2>4. part(DimOf[o])[o] \in BOOLEAN
        BY <2>3, <1>1
    <2>5. Decode(EncodeMap(part(DimOf[o])), o) = part(DimOf[o])[o]
        <3> HIDE DEF part
        <3> QED
            BY <2>3, <2>4, MapIsReadBack
    <2> QED
        BY <2>2, <2>3, <2>5
<1>3. ASSUME NEW q \in Query
      PROVE  Decode(h.queries, q) = s.queries[q]
    <2>1. h.queries = EncodeMap(s.queries)
        BY DEF encodeState
    <2>2. q \in DOMAIN s.queries /\ s.queries[q] \in BOOLEAN
        BY <1>1
    <2> QED
        BY <2>1, <2>2, MapIsReadBack
<1>4. h.metric = s.metric
    BY DEF encodeState
<1> HIDE DEF h
<1>5. [o \in Option |-> Decode(h.on[DimOf[o]], o)] = s.on
    BY <1>1, <1>2
<1>6. [q \in Query |-> Decode(h.queries, q)] = s.queries
    BY <1>1, <1>3
<1>7. decodeState(h) = s
    BY <1>1, <1>4, <1>5, <1>6 DEF decodeState
<1> QED
    BY <1>7 DEF h

\* A page starts with a selection, the one its URL was made of.
LEMMA StartingSelection ==
    ASSUME NEW h \in Hashes
    PROVE  /\ FromHash(h) \in Selectors
           /\ \A s \in Selectors : h = encodeState(s) => FromHash(h) = s
<1>1. \A s \in Selectors : h = encodeState(s) => FromHash(h) = s
    BY StateIsReadBack, HashAssumption DEF FromHash
<1>2. h = NoHash => FromHash(h) = Default
    BY DEF FromHash
<1> QED
    BY <1>1, <1>2, DataAssumption DEF Hashes

-----------------------------------------------------------------------------
(* Rendering *)

\* findPassiveSelectors keeps the selected links apart from the others, and
\* finds the passive ones, whichever were passive before.
LEMMA PassiveAreFound ==
    ASSUME NEW s \in Selectors, NEW lk, Highlights(lk, s), NEW rows \in SUBSET Data
    PROVE  /\ Highlights(findPassiveSelectors(lk, rows), s)
           /\ PassiveAmong(findPassiveSelectors(lk, rows), s, rows)
<1> DEFINE present == UNION {Traits[e] : e \in rows}
           fp == findPassiveSelectors(lk, rows)
<1>1. \A o : o \in present <=> \E e \in rows : o \in Traits[e]
    OBVIOUS
<1>2. DOMAIN lk = Option \union LinkDims
      /\ \A x \in Option \union LinkDims : lk[x] \in Classes
    BY DEF Highlights
<1>3. fp = [x \in DOMAIN lk |->
              IF x \in LinkOptions \union LinkDims /\ lk[x] # "off"
              THEN IF x \in present THEN "active" ELSE "passive"
              ELSE lk[x]]
    BY DEF findPassiveSelectors
<1> HIDE DEF present, fp
<1>4. fp \in [Option \union LinkDims -> Classes]
    BY <1>2, <1>3 DEF Classes
<1>5. LinkOptions \subseteq Option /\ (Option \ LinkOptions) \intersect LinkDims = {}
    BY DimAssumption DEF LinkOptions, Dims
<1>6. \A o \in Option : fp[o] # "off" <=> lk[o] # "off"
    BY <1>2, <1>3
<1>7. \A o \in Option \ LinkOptions : fp[o] = lk[o]
    BY <1>2, <1>3, <1>5
<1>8. \A o \in LinkOptions : fp[o] = "passive" <=> lk[o] # "off" /\ o \notin present
    BY <1>2, <1>3, <1>5
<1>9. Highlights(fp, s)
    BY <1>4, <1>6, <1>7 DEF Highlights
<1>10. PassiveAmong(fp, s, rows)
    BY <1>1, <1>5, <1>8 DEF Highlights, PassiveAmong
<1> QED
    BY <1>9, <1>10 DEF fp

\* Details are told from no details.
LEMMA DetailsAreThere ==
    ASSUME NEW s \in Selectors
    PROVE  Details(s) \in DetailsOf(s) /\ Details(s) # Null
<1>1. Details(s) \in [metric: Metric, box: [Query -> BOOLEAN], allBox: BOOLEAN]
    BY DEF Details, Selectors
<1>2. Details(s) \in DetailsOf(s)
    BY DEF Details, DetailsOf
<1> QED
    BY <1>1, <1>2, DataAssumption

\* What Render leaves on the screen, whether it runs to its end or not.
LEMMA RenderShows ==
    ASSUME NEW s \in Selectors, NEW lk, Highlights(lk, s), Render(s, lk),
           selectors' = s, metricLink' = s.metric
    PROVE  ScreenInv'
<1> DEFINE rows == Filtered(s)
<1>1. rows \in SUBSET Data
    BY DEF Filtered
<1>2. hidden' = Hidden(s) /\ filtered' = rows
      /\ (rows # {} => summary' = Summary(s, rows))
      /\ (\/ ~Completes(s, rows) /\ link' = lk /\ details' = Null
          \/ Completes(s, rows) /\ link' = findPassiveSelectors(lk, rows)
             /\ details' = Details(s))
    BY DEF Render
<1>3. Details(s) \in DetailsOf(s) /\ Details(s) # Null
    BY DetailsAreThere
<1> HIDE DEF rows
<1>4. /\ Highlights(findPassiveSelectors(lk, rows), s)
      /\ PassiveAmong(findPassiveSelectors(lk, rows), s, rows)
    BY <1>1, PassiveAreFound
<1>5. Highlights(link', s)
    BY <1>2, <1>4
<1>6. details' # Null => /\ rows # {}
                         /\ details' \in DetailsOf(s)
                         /\ PassiveAmong(link', s, rows)
    BY <1>2, <1>3, <1>4 DEF Completes
<1>7. Completes(s, rows) => details' # Null
    BY <1>2, <1>3
<1> QED
    BY <1>2, <1>5, <1>6, <1>7 DEF ScreenInv, rows

\* updateSelectors makes the links of a selection.
LEMMA LinksOfSelection ==
    ASSUME NEW s \in Selectors
    PROVE  Highlights(SelectorLinks(s), s)
<1>1. \A o \in Option : s.on[o] \in BOOLEAN
    BY DEF Selectors
<1> QED
    BY <1>1 DEF Highlights, SelectorLinks, Class, Classes

-----------------------------------------------------------------------------
(* What the visitor does *)

\* pushState leaves the page on an entry that holds the selection.
LEMMA EntryIsPushed ==
    ASSUME HistoryInv, NEW s \in Selectors, updateHistory(s), selectors' = s
    PROVE  HistoryInv'
<1> DEFINE kept == SubSeq(history, 1, at)
           entry == EntryMadeBy(s)
<1>1. history \in Seq(HistoryEntries) /\ at \in 1 .. Len(history)
    BY DEF HistoryInv
<1>2. \A i \in 1 .. at : history[i] \in HistoryEntries
    BY <1>1
<1>3. kept \in Seq(HistoryEntries) /\ Len(kept) = at
    BY <1>1, <1>2, SubSeqProperties
<1>4. entry \in HistoryEntries
    BY DEF HistoryEntries
<1>5. history' = Append(kept, entry) /\ at' = at + 1
    BY DEF updateHistory, EntryMadeBy
<1>6. entry.state = s
    BY DEF EntryMadeBy
<1> HIDE DEF kept, entry
<1>7. /\ Append(kept, entry) \in Seq(HistoryEntries)
      /\ Len(Append(kept, entry)) = at + 1 /\ Append(kept, entry)[at + 1] = entry
    BY <1>3, <1>4, AppendProperties
<1>8. history' \in Seq(HistoryEntries) /\ Len(history') = at + 1 /\ history'[at'] = entry
    BY <1>5, <1>7
<1>9. at' \in DOMAIN history'
    BY <1>1, <1>5, <1>8
<1> QED
    BY <1>6, <1>8, <1>9 DEF HistoryInv, EntryHoldsSelection

\* Or nothing is pushed, and the selection is one that threw.
LEMMA EntryIsRemembered ==
    ASSUME HistoryInv, NEW s \in Selectors, NEW rows, Remember(s, rows),
           selectors' = s, filtered' = rows
    PROVE  HistoryInv'
<1>1. CASE Throws(s, rows) /\ UNCHANGED <<history, at>>
    BY <1>1 DEF HistoryInv, EntryHoldsSelection
<1>2. CASE updateHistory(s)
    BY <1>2, EntryIsPushed
<1> QED
    BY <1>1, <1>2 DEF Remember

\* A change of the selection keeps everything in step, if the handler marks
\* the links accordingly.
LEMMA Selected ==
    ASSUME PageInv, NEW s \in Selectors, NEW lk, Highlights(lk, s),
           Select(s, lk), metricLink' = s.metric
    PROVE  PageInv'
<1>1. selectors' = s /\ Render(s, lk) /\ Remember(s, Filtered(s))
      /\ filtered' = Filtered(s)
    BY DEF Select, Render
<1>2. ScreenInv'
    BY <1>1, RenderShows
<1>3. HistoryInv'
    BY <1>1, EntryIsRemembered DEF PageInv
<1> QED
    BY <1>1, <1>2, <1>3 DEF PageInv

\* One option: the link that was clicked is marked, the others keep their class.
LEMMA FlippedIsMarked ==
    ASSUME PageInv, NEW o \in Option
    PROVE  /\ Flipped(o) \in Selectors /\ Flipped(o).metric = selectors.metric
           /\ Highlights([link EXCEPT ![o] = Class(~selectors.on[o])], Flipped(o))
<1> DEFINE lk == [link EXCEPT ![o] = Class(~selectors.on[o])]
<1>1. /\ selectors = [on |-> selectors.on, metric |-> selectors.metric,
                      queries |-> selectors.queries]
      /\ selectors.on \in [Option -> BOOLEAN] /\ selectors.metric \in Metric
      /\ selectors.queries \in [Query -> BOOLEAN]
    BY DEF PageInv, Selectors
<1>2. Flipped(o) = [on |-> [selectors.on EXCEPT ![o] = ~selectors.on[o]],
                    metric |-> selectors.metric, queries |-> selectors.queries]
    BY <1>1 DEF Flipped
<1>3. Flipped(o) \in Selectors /\ Flipped(o).metric = selectors.metric
      /\ Flipped(o).on = [selectors.on EXCEPT ![o] = ~selectors.on[o]]
    BY <1>1, <1>2 DEF Selectors
<1>4. /\ link \in [Option \union LinkDims -> Classes]
      /\ \A x \in Option : link[x] # "off" <=> selectors.on[x]
      /\ \A x \in Option \ LinkOptions : link[x] # "passive"
    BY DEF PageInv, ScreenInv, Highlights
<1>5. selectors.on[o] \in BOOLEAN
    BY <1>1
<1>6. /\ Class(~selectors.on[o]) \in {"active", "off"}
      /\ Class(~selectors.on[o]) # "off" <=> ~selectors.on[o]
    BY <1>5 DEF Class
<1>7. /\ lk \in [Option \union LinkDims -> Classes]
      /\ lk[o] = Class(~selectors.on[o]) /\ \A x \in Option \ {o} : lk[x] = link[x]
    BY <1>4, <1>6 DEF Classes
<1>8. \A x \in Option : Flipped(o).on[x] <=> IF x = o THEN ~selectors.on[o] ELSE selectors.on[x]
    BY <1>1, <1>3
<1> HIDE DEF lk
<1>9. Highlights(lk, Flipped(o))
    BY <1>4, <1>6, <1>7, <1>8 DEF Highlights
<1> QED
    BY <1>3, <1>9 DEF lk

\* Some options of one dimension, and its All link or not.
LEMMA SwitchedIsMarked ==
    ASSUME PageInv, NEW options \in SUBSET LinkOptions, NEW more \in SUBSET LinkDims,
           NEW value \in BOOLEAN
    PROVE  /\ Switch(options, value) \in Selectors
           /\ Switch(options, value).metric = selectors.metric
           /\ Highlights(Mark(options \union more, value), Switch(options, value))
<1> DEFINE lk == Mark(options \union more, value)
           on == [o \in Option |-> IF o \in options THEN value ELSE selectors.on[o]]
<1>1. /\ selectors = [on |-> selectors.on, metric |-> selectors.metric,
                      queries |-> selectors.queries]
      /\ selectors.on \in [Option -> BOOLEAN] /\ selectors.metric \in Metric
      /\ selectors.queries \in [Query -> BOOLEAN]
    BY DEF PageInv, Selectors
<1>2. Switch(options, value) = [on |-> on, metric |-> selectors.metric,
                                queries |-> selectors.queries]
    BY <1>1 DEF Switch
<1>3. on \in [Option -> BOOLEAN]
    BY <1>1
<1>4. /\ link \in [Option \union LinkDims -> Classes]
      /\ \A x \in Option : link[x] # "off" <=> selectors.on[x]
      /\ \A x \in Option \ LinkOptions : link[x] # "passive"
    BY DEF PageInv, ScreenInv, Highlights
<1>5. Class(value) \in {"active", "off"} /\ (Class(value) # "off" <=> value)
    BY DEF Class
<1>6. LinkOptions \subseteq Option /\ Option \intersect more = {}
    BY DimAssumption DEF LinkOptions, Dims
<1>7. /\ lk \in [Option \union LinkDims -> Classes]
      /\ \A x \in Option : lk[x] = IF x \in options THEN Class(value) ELSE link[x]
    BY <1>4, <1>5, <1>6 DEF Mark, Classes
<1>8. \A x \in Option : on[x] <=> IF x \in options THEN value ELSE selectors.on[x]
    OBVIOUS
<1> HIDE DEF lk, on
<1>9. \A x \in Option : lk[x] # "off" <=> on[x]
    BY <1>4, <1>5, <1>7, <1>8
<1>10. \A x \in Option \ LinkOptions : lk[x] # "passive"
    BY <1>4, <1>6, <1>7
<1>11. Switch(options, value) \in Selectors /\ Switch(options, value).on = on
       /\ Switch(options, value).metric = selectors.metric
    BY <1>1, <1>2, <1>3 DEF Selectors
<1> QED
    BY <1>7, <1>9, <1>10, <1>11 DEF Highlights, lk

\* A checkbox changes the queries and nothing else of the selection.
LEMMA QueriesAreChecked ==
    ASSUME PageInv, details # Null, NEW queries \in [Query -> BOOLEAN],
           Resummarize([selectors EXCEPT !.queries = queries]),
           details' \in [metric: {selectors.metric}, box: {queries}, allBox: BOOLEAN]
    PROVE  PageInv'
<1> DEFINE s == [selectors EXCEPT !.queries = queries]
<1>1. /\ selectors = [on |-> selectors.on, metric |-> selectors.metric,
                      queries |-> selectors.queries]
      /\ selectors.on \in [Option -> BOOLEAN] /\ selectors.metric \in Metric
    BY DEF PageInv, Selectors
<1>2. s \in Selectors /\ s.on = selectors.on /\ s.metric = selectors.metric
      /\ s.queries = queries
    BY <1>1 DEF Selectors
<1>3. selectors' = s /\ summary' = Summary(s, filtered) /\ Remember(s, filtered)
      /\ UNCHANGED <<link, metricLink, hidden, filtered>>
    BY DEF Resummarize
<1> HIDE DEF s
<1>4. HistoryInv'
    BY <1>2, <1>3, EntryIsRemembered DEF PageInv
<1>5. Hidden(s) = Hidden(selectors) /\ Filtered(s) = Filtered(selectors)
    BY <1>2 DEF Hidden, Filtered
<1>6. /\ Highlights(link, s)
      /\ filtered # {} /\ PassiveAmong(link, s, filtered)
      /\ hidden = Hidden(s) /\ filtered = Filtered(s) /\ metricLink = s.metric
    BY <1>2, <1>5 DEF PageInv, ScreenInv, Highlights, PassiveAmong
<1>7. details' \in DetailsOf(s) /\ details' # Null
    <2>1. details' \in [metric: Metric, box: [Query -> BOOLEAN], allBox: BOOLEAN]
        BY <1>1
    <2> QED
        BY <2>1, <1>2, DataAssumption DEF DetailsOf
<1>8. ScreenInv'
    BY <1>3, <1>6, <1>7 DEF ScreenInv
<1> QED
    BY <1>2, <1>3, <1>4, <1>8 DEF PageInv

-----------------------------------------------------------------------------
(* Loading and navigating *)

\* The script run anew shows the selection of the URL it runs on.
LEMMA LoadShows ==
    ASSUME NEW h \in Hashes, Load(h)
    PROVE  selectors' = FromHash(h) /\ selectors' \in Selectors /\ ScreenInv'
<1>1. FromHash(h) \in Selectors
    BY StartingSelection
<1>2. Highlights(SelectorLinks(FromHash(h)), FromHash(h))
    BY <1>1, LinksOfSelection
<1>3. /\ selectors' = FromHash(h) /\ metricLink' = FromHash(h).metric
      /\ Render(FromHash(h), SelectorLinks(FromHash(h)))
    BY DEF Load
<1> QED
    BY <1>1, <1>2, <1>3, RenderShows

\* The entries of the history are those the page was opened on and has pushed.
LEMMA EntriesAre ==
    ASSUME HistoryInv, NEW i \in DOMAIN history
    PROVE  /\ history[i].hash \in Hashes
           /\ history[i].state # Null =>
                /\ history[i].state \in Selectors
                /\ history[i].hash = encodeState(history[i].state)
<1>1. history[i] \in HistoryEntries
    BY DEF HistoryInv
<1>2. CASE \E s \in Selectors : history[i] = EntryMadeBy(s)
    <2>1. PICK s \in Selectors : history[i] = EntryMadeBy(s)
        BY <1>2
    <2>2. history[i].state = s /\ history[i].hash = encodeState(s)
        BY <2>1 DEF EntryMadeBy
    <2> QED
        BY <2>2 DEF Hashes
<1>3. CASE history[i] \in [state: {Null}, hash: Hashes]
    BY <1>3
<1> QED
    BY <1>1, <1>2, <1>3 DEF HistoryEntries

LEMMA PageStep ==
    ASSUME PageInv, [Next]_vars
    PROVE  PageInv'
<1>1. ASSUME NEW o \in Option, Toggle(o) \/ ToggleFlag(o)
      PROVE  PageInv'
    <2>1. /\ Select(Flipped(o), [link EXCEPT ![o] = Class(~selectors.on[o])])
          /\ metricLink' = metricLink
        BY <1>1 DEF Toggle, ToggleFlag
    <2>2. metricLink' = selectors.metric
        BY <2>1 DEF PageInv, ScreenInv
    <2> QED
        BY <2>1, <2>2, FlippedIsMarked, Selected
<1>2. ASSUME NEW d \in LinkDims, ToggleAll(d)
      PROVE  PageInv'
    <2> DEFINE value == Cardinality({o \in OptionsOf[d] : selectors.on[o]}) * 2
                          < Cardinality(OptionsOf[d])
    <2>1. OptionsOf[d] \in SUBSET LinkOptions
        BY <1>2 DEF OptionsOf, LinkOptions, Dims
    <2>2. value \in BOOLEAN
        OBVIOUS
    <2>3. /\ Select(Switch(OptionsOf[d], value), Mark(OptionsOf[d] \union {d}, value))
          /\ metricLink' = metricLink
        BY <1>2 DEF ToggleAll
    <2>4. metricLink' = selectors.metric
        BY <2>3 DEF PageInv, ScreenInv
    <2>5. {d} \in SUBSET LinkDims
        BY <1>2
    <2> HIDE DEF value
    <2>6. /\ Switch(OptionsOf[d], value) \in Selectors
          /\ Switch(OptionsOf[d], value).metric = selectors.metric
          /\ Highlights(Mark(OptionsOf[d] \union {d}, value), Switch(OptionsOf[d], value))
        BY <2>1, <2>2, <2>5, SwitchedIsMarked
    <2> QED
        BY <2>3, <2>4, <2>6, Selected
<1>3. ASSUME NEW m \in Metric, SelectMetric(m)
      PROVE  PageInv'
    <2> DEFINE s == [selectors EXCEPT !.metric = m]
    <2>1. metricLink' = m /\ Select(s, link)
        BY <1>3 DEF SelectMetric
    <2>2. /\ selectors = [on |-> selectors.on, metric |-> selectors.metric,
                          queries |-> selectors.queries]
          /\ selectors.on \in [Option -> BOOLEAN]
          /\ selectors.queries \in [Query -> BOOLEAN]
        BY DEF PageInv, Selectors
    <2>3. s \in Selectors /\ s.metric = m /\ s.on = selectors.on
        BY <1>3, <2>2 DEF Selectors
    <2> HIDE DEF s
    <2>4. Highlights(link, s)
        BY <2>3 DEF PageInv, ScreenInv, Highlights
    <2> QED
        BY <2>1, <2>3, <2>4, Selected
<1>4. ASSUME NEW e \in Data, RemoveSystem(e)
      PROVE  PageInv'
    <2> DEFINE options == {o \in Traits[e] : DimOf[o] = System}
    <2>1. options \in SUBSET LinkOptions
        BY <1>4, DimAssumption, DataAssumption DEF LinkOptions
    <2>2. Select(Switch(options, FALSE), Mark(options, FALSE)) /\ metricLink' = metricLink
        BY <1>4 DEF RemoveSystem
    <2>3. metricLink' = selectors.metric
        BY <2>2 DEF PageInv, ScreenInv
    <2> HIDE DEF options
    <2>4. options \union {} = options /\ {} \in SUBSET LinkDims
        OBVIOUS
    <2>5. /\ Switch(options, FALSE) \in Selectors
          /\ Switch(options, FALSE).metric = selectors.metric
          /\ Highlights(Mark(options, FALSE), Switch(options, FALSE))
        BY <2>1, <2>4, SwitchedIsMarked
    <2> QED
        BY <2>2, <2>3, <2>5, Selected
<1>5. ASSUME NEW q \in Query, CheckQuery(q)
      PROVE  PageInv'
    <2>1. details # Null /\ details \in DetailsOf(selectors)
        BY <1>5 DEF CheckQuery, PageInv, ScreenInv
    <2>2. /\ details = [metric |-> selectors.metric, box |-> selectors.queries,
                        allBox |-> details.allBox]
          /\ details.allBox \in BOOLEAN /\ details.box = selectors.queries
        BY <2>1 DEF DetailsOf
    <2>3. selectors.queries \in [Query -> BOOLEAN]
          /\ selectors = [on |-> selectors.on, metric |-> selectors.metric,
                          queries |-> selectors.queries]
        BY DEF PageInv, Selectors
    <2> DEFINE queries == [selectors.queries EXCEPT ![q] = ~selectors.queries[q]]
    <2>4. queries \in [Query -> BOOLEAN]
        BY <2>3
    <2>5. details' = [metric |-> selectors.metric, box |-> queries,
                      allBox |-> details.allBox]
        BY <1>5, <2>2 DEF CheckQuery
    <2>6. Resummarize([selectors EXCEPT !.queries = queries])
        BY <1>5, <2>2, <2>3 DEF CheckQuery
    <2> HIDE DEF queries
    <2>7. details' \in [metric: {selectors.metric}, box: {queries}, allBox: BOOLEAN]
        BY <2>2, <2>5
    <2> QED
        BY <2>1, <2>4, <2>6, <2>7, QueriesAreChecked
<1>6. ASSUME CheckAll
      PROVE  PageInv'
    <2>1. details # Null /\ details \in DetailsOf(selectors)
        BY <1>6 DEF CheckAll, PageInv, ScreenInv
    <2>2. /\ details = [metric |-> selectors.metric, box |-> selectors.queries,
                        allBox |-> details.allBox]
          /\ details.allBox \in BOOLEAN
        BY <2>1 DEF DetailsOf
    <2> DEFINE checked == ~details.allBox
               queries == [q \in Query |-> ~details.allBox]
    <2>3. queries \in [Query -> BOOLEAN] /\ checked \in BOOLEAN
        BY <2>2
    <2>4. details' = [details EXCEPT !.box = queries, !.allBox = checked]
        BY <1>6 DEF CheckAll
    <2>5. Resummarize([selectors EXCEPT !.queries = queries])
        BY <1>6 DEF CheckAll
    <2> HIDE DEF queries, checked
    <2>6. details' = [metric |-> selectors.metric, box |-> queries, allBox |-> checked]
        <3>1. [details EXCEPT !.box = queries, !.allBox = checked].metric = selectors.metric
            BY <2>2
        <3> QED
            BY <2>2, <2>4, <3>1
    <2>7. details' \in [metric: {selectors.metric}, box: {queries}, allBox: BOOLEAN]
        BY <2>3, <2>6
    <2> QED
        BY <2>1, <2>3, <2>5, <2>7, QueriesAreChecked
<1>7. ASSUME SetTheme
      PROVE  PageInv'
    <2>1. Render(selectors, link) /\ UNCHANGED <<selectors, metricLink, history, at>>
        BY <1>7 DEF SetTheme
    <2>2. selectors \in Selectors /\ Highlights(link, selectors)
          /\ metricLink = selectors.metric
        BY DEF PageInv, ScreenInv
    <2>3. ScreenInv'
        BY <2>1, <2>2, RenderShows
    <2>4. filtered' = filtered
        BY <2>1 DEF Render, PageInv, ScreenInv
    <2> QED
        BY <2>1, <2>3, <2>4 DEF PageInv, HistoryInv, EntryHoldsSelection
<1>8. ASSUME NEW i \in 1..MaxHistory, Navigate(i)
      PROVE  PageInv'
    <2>1. i \in DOMAIN history /\ at' = i /\ history' = history
        BY <1>8 DEF Navigate
    <2>2. CASE history[i].state = Null
        <3>1. UNCHANGED <<selectors, screen>> \/ Null # Null
            BY <1>8, <2>2 DEF Navigate
        <3>2. selectors' \in Selectors /\ ScreenInv'
            BY <3>1 DEF PageInv, ScreenInv, screen
        <3>3. HistoryInv'
            BY <2>1, <2>2 DEF PageInv, HistoryInv, EntryHoldsSelection
        <3> QED
            BY <3>2, <3>3 DEF PageInv
    <2>3. CASE history[i].state # Null
        <3> DEFINE s == history[i].state
        <3>1. s \in Selectors
            BY <2>1, <2>3, EntriesAre DEF PageInv
        <3>2. selectors' = s /\ metricLink' = s.metric /\ Render(s, SelectorLinks(s))
            BY <1>8, <2>3 DEF Navigate
        <3>3. ScreenInv'
            BY <3>1, <3>2, LinksOfSelection, RenderShows
        <3>4. HistoryInv'
            BY <2>1, <3>2 DEF PageInv, HistoryInv, EntryHoldsSelection
        <3> QED
            BY <3>1, <3>2, <3>3, <3>4 DEF PageInv
    <2> QED
        BY <2>2, <2>3
<1>9. ASSUME Reload
      PROVE  PageInv'
    <2> DEFINE h == history[at].hash
    <2>1. /\ h \in Hashes
          /\ history[at].state # Null =>
               history[at].state \in Selectors /\ h = encodeState(history[at].state)
        BY EntriesAre DEF PageInv, HistoryInv
    <2>2. Load(h) /\ history' = history /\ at' = at
        BY <1>9 DEF Reload
    <2> HIDE DEF h
    <2>3. selectors' = FromHash(h) /\ selectors' \in Selectors /\ ScreenInv'
        BY <2>1, <2>2, LoadShows
    <2>4. history[at].state # Null => FromHash(h) = history[at].state
        BY <2>1, StartingSelection
    <2>5. HistoryInv'
        BY <2>2, <2>3, <2>4 DEF PageInv, HistoryInv, EntryHoldsSelection
    <2> QED
        BY <2>3, <2>5 DEF PageInv
<1>10. CASE UNCHANGED vars
    BY <1>10 DEF vars, screen, PageInv, ScreenInv, HistoryInv, EntryHoldsSelection
<1> QED
    BY <1>1, <1>2, <1>3, <1>4, <1>5, <1>6, <1>7, <1>8, <1>9, <1>10 DEF Next

LEMMA PageInit == Init => PageInv
<1> SUFFICES ASSUME Init PROVE PageInv
    OBVIOUS
<1>1. PICK h \in {NoHash} \union {encodeState(s) : s \in Shared} :
        /\ selectors = FromHash(h)
        /\ metricLink = FromHash(h).metric
        /\ hidden = Hidden(FromHash(h))
        /\ filtered = Filtered(FromHash(h))
        /\ link = IF Completes(FromHash(h), Filtered(FromHash(h)))
                  THEN findPassiveSelectors(SelectorLinks(FromHash(h)), Filtered(FromHash(h)))
                  ELSE SelectorLinks(FromHash(h))
        /\ details = IF Completes(FromHash(h), Filtered(FromHash(h)))
                     THEN Details(FromHash(h)) ELSE Null
        /\ summary = IF Filtered(FromHash(h)) = {} THEN Null
                     ELSE Summary(FromHash(h), Filtered(FromHash(h)))
        /\ history = <<[state |-> Null, hash |-> h]>>
        /\ at = 1
    BY Zenon DEF Init
<1> DEFINE s == FromHash(h)
           rows == Filtered(s)
           lk == SelectorLinks(s)
<1>2. h \in Hashes
    BY DataAssumption DEF Hashes
<1>3. s \in Selectors
    BY <1>2, StartingSelection
<1>4. rows \in SUBSET Data
    BY DEF Filtered
<1>5. Details(s) \in DetailsOf(s) /\ Details(s) # Null
    BY <1>3, DetailsAreThere
<1> HIDE DEF s, rows, lk
<1>6. Highlights(lk, s)
    BY <1>3, LinksOfSelection DEF lk
<1>7. /\ Highlights(findPassiveSelectors(lk, rows), s)
      /\ PassiveAmong(findPassiveSelectors(lk, rows), s, rows)
    BY <1>3, <1>4, <1>6, PassiveAreFound
<1>8. /\ selectors = s /\ metricLink = s.metric /\ hidden = Hidden(s) /\ filtered = rows
      /\ link = IF Completes(s, rows) THEN findPassiveSelectors(lk, rows) ELSE lk
      /\ details = IF Completes(s, rows) THEN Details(s) ELSE Null
      /\ summary = IF rows = {} THEN Null ELSE Summary(s, rows)
    BY <1>1 DEF s, rows, lk
<1>9. /\ Highlights(link, s)
      /\ details # Null => rows # {} /\ PassiveAmong(link, s, rows)
    BY <1>6, <1>7, <1>8 DEF Completes
<1>10. ScreenInv
    BY <1>5, <1>8, <1>9 DEF ScreenInv, rows
<1> DEFINE entry == [state |-> Null, hash |-> h]
<1>11. entry \in HistoryEntries /\ entry.state = Null
    BY <1>2 DEF HistoryEntries
<1> HIDE DEF entry
<1>12. history = <<entry>> /\ at = 1
    BY <1>1 DEF entry
<1>13. HistoryInv
    BY <1>11, <1>12 DEF HistoryInv, EntryHoldsSelection
<1> QED
    BY <1>3, <1>8, <1>10, <1>13 DEF PageInv

-----------------------------------------------------------------------------
(* Theorems *)

\* The inductive invariant: the selection, the screen made of it, and a
\* history of entries that are each made of one selection.
THEOREM PageInvariant == Spec => []PageInv
<1>1. PageInv /\ [Next]_vars => PageInv'
    BY PageStep
<1> QED
    BY <1>1, PageInit, PTL DEF Spec

\* Links, metric and checkboxes show the selection, whatever was clicked,
\* loaded or navigated to (the handlers write the classes one by one, and before
\* anything that may throw).
THEOREM ControlsDoShow == Spec => []ControlsShowSelectors
<1>1. PageInv => ControlsShowSelectors
    BY DEF PageInv, ScreenInv, Highlights, ControlsShowSelectors, DetailsOf
<1> QED
    BY <1>1, PageInvariant, PTL

\* findPassiveSelectors, which only looks at highlighted links and comes last in
\* render(), leaves exactly the selected options without an entry passive
\* whenever render() got as far as the details.
THEOREM PassiveLinksHaveNoRow == Spec => []PassiveMeansNoRow
<1>1. PageInv => PassiveMeansNoRow
    BY DEF PageInv, ScreenInv, PassiveAmong, PassiveMeansNoRow
<1> QED
    BY <1>1, PageInvariant, PTL

\* The tables are those of the selection, also after a checkbox, which redoes
\* the summary alone over entries filtered before; if the summary threw it has
\* no row, rather than those of an earlier selection.
THEOREM TablesDoShow == Spec => []TablesShowSelectors
<1>1. PageInv => TablesShowSelectors
    BY DEF PageInv, ScreenInv, DetailsOf, TablesShowSelectors
<1> QED
    BY <1>1, PageInvariant, PTL

\* The selection is the one of the current entry of the history, if the page
\* has pushed that entry, or it is one whose summary threw before the push.
THEOREM EntriesHoldSelections == Spec => []EntryHoldsSelection
<1>1. PageInv => EntryHoldsSelection
    BY DEF PageInv, HistoryInv
<1> QED
    BY <1>1, PageInvariant, PTL

\* The URL of such an entry opens to the screen the visitor has, unless the
\* summary of what is selected threw; earlier exceptions leave no trace.
THEOREM SharedLinksShowTheSame == Spec => []SharedLinkShowsTheSame
<1>1. ASSUME PageInv, history[at].state # Null, Completes(selectors, filtered)
      PROVE  SharedLinkShowsTheSame
    <2>1. selectors = history[at].state /\ filtered # {} /\ details # Null
        BY <1>1 DEF PageInv, ScreenInv, HistoryInv, EntryHoldsSelection, Completes
    <2>2. selectors \in Selectors /\ history[at].hash = encodeState(selectors)
        BY <1>1, <2>1, EntriesAre DEF PageInv, HistoryInv
    <2>3. decodeState(history[at].hash) = selectors
        BY <2>2, StateIsReadBack
    <2> DEFINE fresh == findPassiveSelectors(SelectorLinks(selectors), filtered)
    <2>4. filtered = Filtered(selectors) /\ filtered \in SUBSET Data
        BY <1>1 DEF PageInv, ScreenInv, Filtered
    <2>5. Highlights(fresh, selectors) /\ PassiveAmong(fresh, selectors, filtered)
        BY <2>2, <2>4, LinksOfSelection, PassiveAreFound
    <2> HIDE DEF fresh
    <2>6. Highlights(link, selectors) /\ PassiveAmong(link, selectors, filtered)
        BY <1>1, <2>1 DEF PageInv, ScreenInv
    <2>7. LinkOptions \subseteq Option
        BY DEF LinkOptions
    <2>8. \A o \in Option : link[o] \in Classes /\ fresh[o] \in Classes
        BY <2>5, <2>6 DEF Highlights
    <2>9. \A o \in Option : link[o] = fresh[o]
        BY <2>5, <2>6, <2>7, <2>8 DEF Highlights, PassiveAmong, Classes
    <2>10. /\ metricLink = selectors.metric /\ hidden = Hidden(selectors)
           /\ summary = Summary(selectors, filtered)
           /\ details.box = selectors.queries
        BY <1>1, <2>1 DEF PageInv, ScreenInv, DetailsOf
    <2> QED
        BY <2>3, <2>4, <2>9, <2>10 DEF fresh, SharedLinkShowsTheSame
<1>2. PageInv => SharedLinkShowsTheSame
    BY <1>1 DEF SharedLinkShowsTheSame
<1> QED
    BY <1>2, PageInvariant, PTL
=============================================================================
