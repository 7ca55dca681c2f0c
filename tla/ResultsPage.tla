----------------------------- MODULE ResultsPage -----------------------------
(***************************************************************************)
(* The results page: the selection of what to compare, the controls that   *)
(* show it, the tables rendered from it, and the browser's history.        *)
(* index-v2.html is the same page over another data file.                  *)
(*                                                                         *)
(* An option is one value of one dimension: a system, a tag, a machine, a  *)
(* cluster size, or the yes or no (cpu or gpu) of a flag.  An entry of the *)
(* data is known by its traits, the options it belongs to: an entry that   *)
(* is not proprietary has the option "open source: yes", one without       *)
(* hardware has "cpu".                                                     *)
(***************************************************************************)
EXTENDS Naturals, Sequences, FiniteSets

CONSTANTS
    LinkDims,     \* system, type, machine, cluster_size
    FlagDims,     \* opensource, hardware, tuned
    Option,       \* the options of all dimensions
    DimOf,        \* DimOf[o]: the dimension of an option
    System,       \* the dimension that the ✕ of a row acts on
    Data,         \* the entries of the data file
    Traits,       \* Traits[e]: the options of an entry
    Metric,       \* combined, cold, hot, load, size
    LeftOut,      \* LeftOut[m]: the entries a metric cannot compare
    Relative,     \* cold and hot: the metrics that are a ratio of query times
    Timed,        \* Timed[e][m]: the queries an entry has a time of for such a metric
    Query,        \* the queries, one checkbox each
    Default,      \* the selection of a page opened without a hash
    Shared,       \* the selections in URLs the page may be opened with
    Null,         \* no state, no table
    NoHash,       \* the hash of a URL without one
    MaxHistory    \* bound on the entries of the history

Dims == LinkDims \union FlagDims
OptionsOf == [d \in Dims |-> {o \in Option : DimOf[o] = d}]
LinkOptions == {o \in Option : DimOf[o] \in LinkDims}

Selectors == [on: [Option -> BOOLEAN], metric: Metric, queries: [Query -> BOOLEAN]]

ASSUME DimAssumption ==
    /\ System \in LinkDims
    /\ LinkDims \intersect FlagDims = {}
    /\ DimOf \in [Option -> Dims]
    /\ IsFiniteSet(Option) /\ IsFiniteSet(Query)
    \* The All link of a dimension is an element beside its options.
    /\ Dims \intersect Option = {}

ASSUME DataAssumption ==
    /\ Traits \in [Data -> SUBSET Option]
    /\ LeftOut \in [Metric -> SUBSET Data]
    /\ Relative \subseteq Metric
    /\ Timed \in [Data -> [Relative -> SUBSET Query]]
    /\ \A e \in Data : \E o \in Traits[e] : DimOf[o] = System
    /\ Default \in Selectors
    /\ Shared \subseteq Selectors
    /\ Null \notin Selectors
    /\ Null \notin [metric: Metric, box: [Query -> BOOLEAN], allBox: BOOLEAN]

VARIABLES
    selectors,    \* the global of that name
    link,         \* class of every option's link and of every dimension's "All"
    metricLink,   \* the metric whose link is highlighted
    hidden,       \* links with display: none
    filtered,     \* the entries of the tables; {}: "Nothing selected" is shown
    details,      \* [metric, box, allBox] of the details, box[q] a checkbox
    summary,      \* [rows, metric, used] of the summary table
    history,      \* the entries of the session history: [state, hash], the
                  \* state Null if pushState did not make the entry
    at            \* the current one

screen == <<link, metricLink, hidden, filtered, details, summary>>
vars == <<selectors, screen, history, at>>

-----------------------------------------------------------------------------
(* Rendering                                                               *)

TraitsIn == [e \in Data |-> [d \in Dims |-> {o \in Traits[e] : DimOf[o] = d}]]

\* An entry matches a dimension if one of its options there is selected.
Matches(e, on, dims) == \A d \in dims : \E o \in TraitsIn[e][d] : on[o]

Filtered(s) == {e \in Data : Matches(e, s.on, Dims)} \ LeftOut[s.metric]

\* applyTopRowFilters: links no entry has under the flags alone.
Hidden(s) ==
    {o \in LinkOptions : \A e \in Data : Matches(e, s.on, FlagDims) => o \notin Traits[e]}

\* Mutant: a passive link is never highlighted again.
StayPassive(lk, rows) ==
    LET present == UNION {Traits[e] : e \in rows}
    IN  [x \in DOMAIN lk |->
            IF x \in LinkOptions \union LinkDims /\ lk[x] = "active" /\ x \notin present
            THEN "passive" ELSE lk[x]]

\* findPassiveSelectors: among the highlighted links of the four dimensions,
\* the ones no entry of the table has; "All" is one of those.
findPassiveSelectors(lk, rows) ==
    LET present == UNION {Traits[e] : e \in rows}
    IN  [x \in DOMAIN lk |->
            IF x \in LinkOptions \union LinkDims /\ lk[x] # "off"
            THEN IF x \in present THEN "active" ELSE "passive"
            ELSE lk[x]]

\* With no query selected all of them count.
Used(queries) ==
    IF \E q \in Query : queries[q] THEN {q \in Query : queries[q]} ELSE Query

\* relativeQueryTime skips a query that no entry of the table has a time of.  If
\* it skips all of them there is no ratio, for any of the entries, and formatting
\* the first one throws, out of renderSummary and of whatever called it.
Throws(s, rows) ==
    /\ rows # {} /\ s.metric \in Relative
    /\ \A e \in rows : Used(s.queries) \intersect Timed[e][s.metric] = {}

\* The table is cleared first, and its rows come after the ratios.
Summary(s, rows) ==
    [rows |-> IF Throws(s, rows) THEN {} ELSE rows,
     metric |-> s.metric,
     used |-> Used(s.queries)]

\* The checkbox over the others is made anew, and checked.
Details(s) == [metric |-> s.metric, box |-> s.queries, allBox |-> TRUE]

\* With nothing to show, render() hides the summary and returns.
Completes(s, rows) == rows # {} /\ ~Throws(s, rows)

\* The details are cleared first.  They, and the passive links, come after the
\* summary; if render() does not get there the links keep their classes.
Render(s, lk) ==
    LET rows == Filtered(s)
    IN  /\ hidden' = Hidden(s)
        /\ filtered' = rows
        /\ summary' = IF rows = {} THEN Null ELSE Summary(s, rows)
        /\ \/ /\ ~Completes(s, rows)
              /\ link' = lk
              /\ details' = Null
           \/ /\ Completes(s, rows)
              /\ link' = findPassiveSelectors(lk, rows)
              /\ details' = Details(s)

Class(selected) == IF selected THEN "active" ELSE "off"

\* updateSelectors: "All" is no key of the selectors and loses its highlight.
SelectorLinks(s) == [x \in Option \union LinkDims |-> Class(x \in Option /\ s.on[x])]

-----------------------------------------------------------------------------
(* The URL.  A map is written as its smaller half and the sign that tells   *)
(* which one it is; that a name survives its own encoding is the subject of *)
(* StateCodec.                                                              *)

\* Mutant: the smaller half without telling which one it is.
EncodeHalf(f) ==
    LET selected == {x \in DOMAIN f : f[x]}
    IN  [sign |-> "+",
         names |-> IF Cardinality(selected) * 2 <= Cardinality(DOMAIN f)
                   THEN selected ELSE DOMAIN f \ selected]

EncodeMap(f) ==
    LET selected == {x \in DOMAIN f : f[x]}
    IN  IF Cardinality(selected) * 2 <= Cardinality(DOMAIN f)
        THEN [sign |-> "+", names |-> selected]
        ELSE [sign |-> "-", names |-> DOMAIN f \ selected]

Decode(code, x) == (x \in code.names) <=> (code.sign = "+")

encodeState(s) ==
    [on |-> [d \in Dims |-> EncodeMap([o \in OptionsOf[d] |-> s.on[o]])],
     metric |-> s.metric,
     queries |-> EncodeMap(s.queries)]

decodeState(h) ==
    [on |-> [o \in Option |-> Decode(h.on[DimOf[o]], o)],
     metric |-> h.metric,
     queries |-> [q \in Query |-> Decode(h.queries, q)]]

ASSUME HashAssumption == \A s \in Selectors : encodeState(s) # NoHash

\* The selection a page starts with.
FromHash(h) == IF h = NoHash THEN Default ELSE decodeState(h)

\* Mutant: the entry is pushed before the selection changes.
PushFirst(s) ==
    /\ at < MaxHistory
    /\ history' = Append(SubSeq(history, 1, at), [state |-> selectors, hash |-> encodeState(s)])
    /\ at' = at + 1

\* pushState drops what lies ahead and stores a copy of the selection.
updateHistory(s) ==
    /\ at < MaxHistory
    /\ history' = Append(SubSeq(history, 1, at), [state |-> s, hash |-> encodeState(s)])
    /\ at' = at + 1

-----------------------------------------------------------------------------
(* What the visitor does                                                   *)

\* The handlers call updateHistory() last: an exception keeps them from it.
Remember(s, rows) ==
    \/ Throws(s, rows) /\ UNCHANGED <<history, at>>
    \/ ~Throws(s, rows) /\ updateHistory(s)

Select(s, lk) == /\ selectors' = s
                 /\ Render(s, lk)
                 /\ Remember(s, Filtered(s))

Flipped(o) == [selectors EXCEPT !.on[o] = ~@]

\* The selection with the options of a set switched to a value, and the
\* links with their classes set accordingly.
Switch(options, value) ==
    [selectors EXCEPT !.on = [o \in Option |-> IF o \in options THEN value ELSE @[o]]]
Mark(links, value) ==
    [x \in DOMAIN link |-> IF x \in links THEN Class(value) ELSE link[x]]

\* One link of a dimension, if it is on the screen.
Toggle(o) ==
    /\ o \in LinkOptions \ hidden
    /\ Select(Flipped(o), [link EXCEPT ![o] = Class(~selectors.on[o])])
    /\ UNCHANGED metricLink

\* One of the six flag links.
ToggleFlag(o) ==
    /\ o \in Option \ LinkOptions
    /\ Select(Flipped(o), [link EXCEPT ![o] = Class(~selectors.on[o])])
    /\ UNCHANGED metricLink

\* "All" of a dimension: selects all unless at least half are; hidden ones too.
ToggleAll(d) ==
    /\ d \in LinkDims
    /\ LET options == OptionsOf[d]
           value == Cardinality({o \in options : selectors.on[o]}) * 2 < Cardinality(options)
       IN  Select(Switch(options, value), Mark(options \union {d}, value))
    /\ UNCHANGED metricLink

SelectMetric(m) ==
    /\ m \in Metric
    /\ metricLink' = m
    /\ Select([selectors EXCEPT !.metric = m], link)

\* The ✕ of a row of the summary.
RemoveSystem(e) ==
    /\ summary # Null /\ e \in summary.rows
    /\ LET options == {o \in Traits[e] : DimOf[o] = System}
       IN  Select(Switch(options, FALSE), Mark(options, FALSE))
    /\ UNCHANGED metricLink

\* Mutant: the summary is redone before the checkbox is read.
SummaryFirst(s) == /\ selectors' = s
                   /\ summary' = Summary(selectors, filtered)
                   /\ Remember(selectors, filtered)
                   /\ UNCHANGED <<link, metricLink, hidden, filtered>>

\* The checkboxes redo the summary over the entries of the last render only.
Resummarize(s) == /\ selectors' = s
                  /\ summary' = Summary(s, filtered)
                  /\ Remember(s, filtered)
                  /\ UNCHANGED <<link, metricLink, hidden, filtered>>

CheckQuery(q) ==
    /\ details # Null
    /\ details' = [details EXCEPT !.box[q] = ~@]
    /\ Resummarize([selectors EXCEPT !.queries[q] = ~details.box[q]])

CheckAll ==
    /\ details # Null
    /\ LET checked == [q \in Query |-> ~details.allBox]
       IN  /\ details' = [details EXCEPT !.box = checked, !.allBox = ~@]
           /\ Resummarize([selectors EXCEPT !.queries = checked])

\* setTheme renders again what is selected.
SetTheme ==
    /\ Render(selectors, link)
    /\ UNCHANGED <<selectors, metricLink, history, at>>

\* Mutant: onpopstate renders without updating the links.
RenderOnly(i) ==
    /\ i \in DOMAIN history \ {at}
    /\ at' = i
    /\ LET s == history[i].state
       IN  \/ /\ s = Null
              /\ UNCHANGED <<selectors, screen>>
           \/ /\ s # Null
              /\ selectors' = s
              /\ metricLink' = s.metric
              /\ Render(s, link)
    /\ UNCHANGED history

\* Back, forward, or any entry of the history; onpopstate ignores an entry
\* without a state.
Navigate(i) ==
    /\ i \in DOMAIN history \ {at}
    /\ at' = i
    /\ LET s == history[i].state
       IN  \/ /\ s = Null
              /\ UNCHANGED <<selectors, screen>>
           \/ /\ s # Null
              /\ selectors' = s
              /\ metricLink' = s.metric
              /\ Render(s, SelectorLinks(s))
    /\ UNCHANGED history

\* The script runs anew on the URL of the current entry.
Load(h) ==
    LET s == FromHash(h)
    IN  /\ selectors' = s
        /\ metricLink' = s.metric
        /\ Render(s, SelectorLinks(s))

Reload == /\ Load(history[at].hash)
          /\ UNCHANGED <<history, at>>

\* The page is opened, without a hash or with a shared one.
Init ==
    \E h \in {NoHash} \union {encodeState(s) : s \in Shared} :
        LET s == FromHash(h)
            rows == Filtered(s)
        IN  /\ selectors = s
            /\ metricLink = s.metric
            /\ hidden = Hidden(s)
            /\ filtered = rows
            /\ link = IF Completes(s, rows) THEN findPassiveSelectors(SelectorLinks(s), rows)
                      ELSE SelectorLinks(s)
            /\ details = IF Completes(s, rows) THEN Details(s) ELSE Null
            /\ summary = IF rows = {} THEN Null ELSE Summary(s, rows)
            /\ history = <<[state |-> Null, hash |-> h]>>
            /\ at = 1

Next ==
    \/ \E o \in Option : Toggle(o) \/ ToggleFlag(o)
    \/ \E d \in LinkDims : ToggleAll(d)
    \/ \E m \in Metric : SelectMetric(m)
    \/ \E e \in Data : RemoveSystem(e)
    \/ \E q \in Query : CheckQuery(q)
    \/ CheckAll
    \/ SetTheme
    \/ \E i \in 1..MaxHistory : Navigate(i)
    \/ Reload

Spec == Init /\ [][Next]_vars

-----------------------------------------------------------------------------
(* Properties                                                              *)

\* Whatever was clicked, loaded or navigated to: a link is highlighted, or
\* passive, exactly if its option is selected; the metric's link and the
\* checkboxes show the metric and the queries selected.  The handlers write the
\* classes themselves; updateSelectors writes them all after onpopstate.
ControlsShowSelectors ==
    /\ \A o \in Option : link[o] # "off" <=> selectors.on[o]
    /\ metricLink = selectors.metric
    /\ details # Null => details.box = selectors.queries

\* While there are details, which is when the last render() ran to its end, the
\* passive links are the selected options that none of the entries of the table
\* has, however many renderings ago they became so, and whatever the checkboxes
\* have thrown since.
PassiveMeansNoRow ==
    details # Null =>
        \A o \in LinkOptions :
            link[o] = "passive" <=> selectors.on[o] /\ \A e \in filtered : o \notin Traits[e]

\* The links on the screen, the entries of the tables, the metric of the
\* details, and the rows, the metric and the queries of the summary are those of
\* the selection, although a checkbox redoes the summary alone, over entries
\* filtered before.  The details are there unless nothing is selected or the
\* summary threw, and then the summary has no row: an exception never leaves the
\* rows of an earlier selection.
TablesShowSelectors ==
    /\ hidden = Hidden(selectors)
    /\ filtered = Filtered(selectors)
    /\ filtered # {} => summary = Summary(selectors, filtered)
    /\ Completes(selectors, filtered) => details # Null
    /\ details # Null => filtered # {} /\ details.metric = selectors.metric

\* On an entry the page has pushed, the selection is the one that was pushed
\* with it, unless it made the summary throw, which pushes nothing: the address
\* and the history stay with the selection before.  The entry the page was opened
\* on has no state: going back to it changes the URL and nothing else.
EntryHoldsSelection ==
    history[at].state # Null =>
        selectors = history[at].state \/ Throws(selectors, filtered)

\* A page opened from the URL of such an entry shows the same tables, links and
\* checkboxes, whatever the visitor did to get there, selections that threw
\* included, as long as the present one does not.  (The All links and the
\* checkbox over the queries are not part of the URL; nor are the passive links
\* while nothing is shown.)
SharedLinkShowsTheSame ==
    history[at].state # Null /\ Completes(selectors, filtered) =>
        LET s == decodeState(history[at].hash)
            fresh == findPassiveSelectors(SelectorLinks(s), Filtered(s))
        IN  /\ \A o \in Option : link[o] = fresh[o]
            /\ metricLink = s.metric
            /\ hidden = Hidden(s)
            /\ filtered = Filtered(s)
            /\ summary = Summary(s, Filtered(s))
            /\ details.box = s.queries
=============================================================================
