----------------------------- MODULE Generator -----------------------------
(***************************************************************************)
(* The records of a run (datagen/src/main.rs).  Each batch is generated by *)
(* a thread of its own, beside the other batches in flight, and each       *)
(* record from a random stream of its own, whose key mixes --seed with the *)
(* record's index.  A record's message is drawn from the same stream, line *)
(* by line until it is long enough, so how many draws a record takes       *)
(* depends on what was drawn.                                              *)
(*                                                                         *)
(* The program may be invoked again, with other batches or as a dry run,   *)
(* and after an invocation that was cut short.  The event time is left out *)
(* (see Ingest), and so is what nothing tells apart: which member of a     *)
(* pool a number stands for, and the words of a line but for its length.   *)
(***************************************************************************)
EXTENDS Integers, Sequences, FiniteSets

CONSTANTS
  Seeds,           \* the values of --seed
  Total,           \* --total
  BatchSizes,      \* the values of --batch-size
  Concurrency,     \* --concurrency
  MaxInvocations,  \* bound on the invocations
  Word,            \* 2^64 in the code, smaller in a run
  Xor(_, _),       \* bitwise exclusive or below Word
  Mix,             \* the constants of splitmix64
  Stream(_, _),    \* the words of the ChaCha stream of a key, by position
  Lines,           \* the templates of a line, as pairs of lengths
  LineWeights,     \* how many of a hundred draws each template gets
  Exception,       \* the template of the suffix of WARN and ERROR records
  MinLine          \* length up to which a message is padded, 1100

ASSUME ArgsAssumption ==
  /\ Total \in Nat \ {0} /\ Concurrency \in Nat \ {0} /\ MaxInvocations \in Nat
  /\ BatchSizes # {} /\ BatchSizes \subseteq Nat \ {0}
  /\ Word \in Nat \ {0} /\ Seeds \subseteq 0 .. Word - 1 /\ Total <= Word

Shifts == {2 ^ Mix.shift1, 2 ^ Mix.shift2, 2 ^ Mix.shift3}

\* Exclusive or undoes itself and goes bit by bit, so that a shift of it is the
\* one of its shifted arguments.
ASSUME XorAssumption ==
  \A a, b \in 0 .. Word - 1 :
    /\ Xor(a, b) \in 0 .. Word - 1
    /\ Xor(a, b) = Xor(b, a) /\ Xor(a, 0) = a /\ Xor(Xor(a, b), b) = a
    /\ \A m \in Shifts : Xor(a, b) \div m = Xor(a \div m, b \div m)

\* The multipliers are odd, and a third shift leaves nothing of a word.
ASSUME MixAssumption ==
  /\ Mix.golden \in Nat
  /\ \A mul \in {Mix.mul1, Mix.mul2} :
       mul \in Nat /\ \E inverse \in 0 .. Word - 1 : (mul * inverse) % Word = 1 % Word
  /\ \A m \in Shifts : m \in Nat \ {0} /\ Word <= m * m * m

\* Upto(weights)[i]: the sum of the first i weights.
Upto(weights) ==
  LET sum[i \in 0 .. Len(weights)] == IF i = 0 THEN 0 ELSE sum[i - 1] + weights[i]
  IN  sum

ASSUME LinesAssumption ==
  /\ Lines \in Seq(Nat \X Nat) /\ Lines # <<>>
  /\ \A i \in DOMAIN Lines : Lines[i][1] <= Lines[i][2]
  /\ LineWeights \in [DOMAIN Lines -> Nat] /\ Upto(LineWeights)[Len(Lines)] = 100
  /\ Exception \in Nat \X Nat /\ Exception[1] <= Exception[2]
  /\ MinLine \in Nat \ {0}

VARIABLES
  seed,        \* --seed, the same in all invocations
  invocations, \* invocations so far
  dry,         \* whether this one is a dry run
  batch_size,  \* --batch-size of this invocation
  pc,          \* where the thread of each batch is
  made,        \* records the thread has made
  rng,         \* the thread's generator
  head,        \* the fields it has drawn before the message
  line,        \* the message it is making
  kept         \* what was ever generated for each index

SmallerOf(a, b) == IF a <= b THEN a ELSE b
LargerOf(a, b) == IF a <= b THEN b ELSE a

vars == <<seed, invocations, dry, batch_size, pc, made, rng, head, line, kept>>

-----------------------------------------------------------------------------
(* Keys and draws *)

xorshift(z, bits) == Xor(z, z \div 2 ^ bits)
\* Mutant: the product saturates.
saturating_mul(a, b) == SmallerOf(a * b, Word - 1)
wrapping_mul(a, b) == (a * b) % Word
splitmix64(n) ==
  LET x  == (n + Mix.golden) % Word
      z1 == wrapping_mul(xorshift(x, Mix.shift1), Mix.mul1)
      z2 == wrapping_mul(xorshift(z1, Mix.shift2), Mix.mul2)
  IN  xorshift(z2, Mix.shift3)

\* The draw of a number below n that a generator is about to make.
gen_range(g, n) == Stream(g.key, g.pos) % n
Skip(g, draws) == [g EXCEPT !.pos = @ + draws]

\* Total / unit, rounded to the nearest, the unit given in millionths.
Share(millionths) == (2 * Total * millionths + 1000000) \div 2000000
\* Mutant: a small total has no clients to draw from.
NoFloor(n) == n
AtLeastOne(n) == LargerOf(n, 1)
trace_universe == AtLeastOne((20 * Total + 78) \div 156)
ip_universe == AtLeastOne(Share(5127))
ja3_universe == AtLeastOne(Share(61733))

\* How many values each field before the message is drawn from, in the order
\* of the draws; a span or request id takes a whole word.
HeadFields == <<"app", "replicaset", "pod", "namespace", "node", "level", "stream",
  "method", "path", "status", "latency", "bytes", "trace_id", "span_id",
  "client", "ja3", "request_id">>
HeadRanges == <<8, 3, 1024, 9, 5, 100, 100, 100, 8, 910, 1499, 32704, trace_universe,
  Word, ip_universe, ja3_universe, Word>>
TailRanges == <<99999, Word, 100, 100, 100>>

\* One draw for each of the ranges; the empty range makes gen_range() panic.
DrawAll(g, ranges) ==
  [i \in DOMAIN ranges |-> gen_range(Skip(g, i - 1), ranges[i])]
Drawable(ranges) == \A i \in DOMAIN ranges : ranges[i] > 0

Field(fields, name) ==
  fields[CHOOSE i \in DOMAIN HeadFields : HeadFields[i] = name]

\* The member whose share of the weights the draw falls into.
weighted_pick(r, weights) ==
  LET upto == Upto(weights)
  IN  CHOOSE i \in DOMAIN weights : upto[i - 1] <= r /\ r < upto[i]

LEVELS == <<"INFO", "WARN", "ERROR", "DEBUG", "TRACE">>
LEVEL_WEIGHTS == <<70, 10, 4, 15, 1>>
Level(fields) == LEVELS[weighted_pick(Field(fields, "level"), LEVEL_WEIGHTS)]

\* The length of a text of a template; its draws are taken together as one.
LengthOf(template, draw) == template[1] + (draw % (template[2] - template[1] + 1))
generate_log_line(g) ==
  LengthOf(Lines[weighted_pick(gen_range(g, 100), LineWeights)], gen_range(Skip(g, 1), Word))
tpl_exception(g) == LengthOf(Exception, gen_range(g, Word))

\* Identities of clients: equal numbers are equal addresses.
FirstOctets == 16
client_ip(id) ==
  LET rem == id \div FirstOctets
  IN  <<id % FirstOctets, (rem \div 65536) % 256, (rem \div 256) % 256, rem % 256>>

Separator == 3                              \* " | "
IdsLength == 12 + 32 + 9 + 16 + 14 + 32     \* the three ids and their labels

\* A message in the making, and the generator that goes on with it: the first
\* line, with the exception of a WARN or ERROR record, and one line more.
Opening(g, fields) ==
  LET first == generate_log_line(g)
      next  == Skip(g, 2)
      suffixed == Level(fields) \in {"WARN", "ERROR"}
  IN  [line |-> [length |-> first + IF suffixed THEN Separator + tpl_exception(next) ELSE 0,
                 pieces |-> 1, exception |-> suffixed],
       rng |-> IF suffixed THEN Skip(next, 1) ELSE next]
Longer(m) ==
  [line |-> [length |-> m.line.length + Separator + generate_log_line(m.rng),
             pieces |-> m.line.pieces + 1, exception |-> m.line.exception],
   rng |-> Skip(m.rng, 2)]

-----------------------------------------------------------------------------
(* Batches and records *)

Records == 0 .. Total - 1
Threads == Records  \* as many as there are batches of one record
total_batches == (Total + batch_size - 1) \div batch_size
start_record_idx(b) == b * batch_size
this_batch(b) == IF dry THEN 1 ELSE SmallerOf(batch_size, Total - start_record_idx(b))
record_idx(b) == start_record_idx(b) + made[b]

InFlight == {b \in Threads : pc[b] \notin {"idle", "done", "panicked"}}
Over == \A b \in 0 .. (IF dry THEN 1 ELSE total_batches) - 1 : pc[b] \in {"done", "panicked"}

NoRng == [key |-> 0, pos |-> 0]
NoLine == [length |-> 0, pieces |-> 0, exception |-> FALSE]

Init ==
  /\ seed \in Seeds
  /\ invocations = 0 /\ dry = FALSE /\ batch_size \in BatchSizes
  /\ pc = [b \in Threads |-> "idle"]
  /\ made = [b \in Threads |-> 0]
  /\ rng = [b \in Threads |-> NoRng]
  /\ head = [b \in Threads |-> <<>>]
  /\ line = [b \in Threads |-> NoLine]
  /\ kept = [r \in Records |-> {}]

\* The program is started, after an earlier invocation has ended or was killed.
Invoke ==
  /\ invocations < MaxInvocations
  /\ invocations' = invocations + 1
  /\ dry' \in BOOLEAN
  /\ batch_size' \in BatchSizes
  /\ pc' = [b \in Threads |-> IF b = 0 THEN "seeding" ELSE "idle"]
  /\ made' = [b \in Threads |-> 0]
  /\ rng' = [b \in Threads |-> NoRng]
  /\ head' = [b \in Threads |-> <<>>]
  /\ line' = [b \in Threads |-> NoLine]
  /\ UNCHANGED <<seed, kept>>

\* After the priming batch, each batch in turn, as many as --concurrency at once.
StartBatch(b) ==
  /\ invocations > 0 /\ ~dry
  /\ pc[b] = "idle" /\ b \in 1 .. total_batches - 1
  /\ pc[b - 1] # "idle" /\ pc[0] = "done"
  /\ Cardinality(InFlight) < Concurrency
  /\ pc' = [pc EXCEPT ![b] = "seeding"]
  /\ UNCHANGED <<seed, invocations, dry, batch_size, made, rng, head, line, kept>>

\* The dry run mixes the seed alone.
KeyOf(b) == splitmix64(IF dry THEN seed ELSE Xor(seed, record_idx(b)))

\* Mutant: one generator for all the records of a batch.
SeedOncePerBatch(b) ==
  /\ pc[b] = "seeding"
  /\ rng' = IF made[b] = 0
            THEN [rng EXCEPT ![b] = [key |-> KeyOf(b), pos |-> 0]]
            ELSE rng
  /\ pc' = [pc EXCEPT ![b] = "drawing"]
  /\ UNCHANGED <<seed, invocations, dry, batch_size, made, head, line, kept>>
Seed(b) ==
  /\ pc[b] = "seeding"
  /\ rng' = [rng EXCEPT ![b] = [key |-> KeyOf(b), pos |-> 0]]
  /\ pc' = [pc EXCEPT ![b] = "drawing"]
  /\ UNCHANGED <<seed, invocations, dry, batch_size, made, head, line, kept>>

DrawHead(b) ==
  /\ pc[b] = "drawing"
  /\ IF Drawable(HeadRanges)
     THEN /\ head' = [head EXCEPT ![b] = DrawAll(rng[b], HeadRanges)]
          /\ rng' = [rng EXCEPT ![b] = Skip(@, Len(HeadRanges))]
          /\ pc' = [pc EXCEPT ![b] = "message"]
     ELSE /\ pc' = [pc EXCEPT ![b] = "panicked"]
          /\ UNCHANGED <<head, rng>>
  /\ UNCHANGED <<seed, invocations, dry, batch_size, made, line, kept>>

FirstLine(b) ==
  LET message == Opening(rng[b], head[b])
  IN  /\ pc[b] = "message"
      /\ line' = [line EXCEPT ![b] = message.line]
      /\ rng' = [rng EXCEPT ![b] = message.rng]
      /\ pc' = [pc EXCEPT ![b] = "padding"]
      /\ UNCHANGED <<seed, invocations, dry, batch_size, made, head, kept>>

\* Mutant: the ids that are still to come are counted.
LongWithIds(b) == line[b].length + IdsLength >= MinLine
LongEnough(b) == line[b].length >= MinLine

Pad(b) ==
  LET message == Longer([line |-> line[b], rng |-> rng[b]])
  IN  /\ pc[b] = "padding" /\ ~LongEnough(b)
      /\ line' = [line EXCEPT ![b] = message.line]
      /\ rng' = [rng EXCEPT ![b] = message.rng]
      /\ UNCHANGED <<seed, invocations, dry, batch_size, pc, made, head, kept>>

\* The record: its fields, a message that ends with its own three ids, and the
\* fields drawn after the message.
Record(b) ==
  [stream  |-> rng[b].key,
   head    |-> head[b],
   client  |-> client_ip(Field(head[b], "client")),
   message |-> [line[b] EXCEPT !.length = @ + IdsLength],
   tail    |-> DrawAll(rng[b], TailRanges)]

FinishRecord(b) ==
  /\ pc[b] = "padding" /\ LongEnough(b)
  /\ kept' = [kept EXCEPT ![record_idx(b)] = @ \cup {Record(b)}]
  /\ made' = [made EXCEPT ![b] = @ + 1]
  /\ pc' = [pc EXCEPT ![b] = IF made'[b] = this_batch(b) THEN "done" ELSE "seeding"]
  /\ UNCHANGED <<seed, invocations, dry, batch_size, rng, head, line>>

Thread(b) ==
  \/ StartBatch(b) \/ Seed(b) \/ DrawHead(b) \/ FirstLine(b) \/ Pad(b) \/ FinishRecord(b)

\* The last invocation is over.
Stop == invocations = MaxInvocations /\ Over /\ UNCHANGED vars

Next == Invoke \/ (\E b \in Threads : Thread(b)) \/ Stop

Spec == Init /\ [][Next]_vars

-----------------------------------------------------------------------------
(* Properties *)

\* The comment on the seed of a record (main.rs:546-547) and datagen/README.md:
\* 73-74: whatever the batches and the order their threads run in, an index gets
\* the same content, and a dry run shows the content of record 0.
Reproducible == \A r \in Records : Cardinality(kept[r]) <= 1

\* No two records of a dataset are drawn from the same stream: one would be the
\* copy of the other, and both would answer a query for an id of one.
StreamsAreDistinct ==
  \A q, r \in Records : q # r =>
    \A x \in kept[q], y \in kept[r] : x.stream # y.stream

\* An invocation that has ended has generated every record, however few they
\* are and whatever was drawn for them.
EveryRecordIsMade ==
  invocations > 0 /\ Over => \A r \in (IF dry THEN {0} ELSE Records) : kept[r] # {}

LongestLine == CHOOSE n \in {Lines[i][2] : i \in DOMAIN Lines} :
                 \A i \in DOMAIN Lines : Lines[i][2] <= n
LongestMessage ==
  LargerOf(MinLine - 1, LongestLine) + Separator
    + LargerOf(LongestLine, Exception[2]) + IdsLength

\* A message is padded to its least length and by no line more than that takes,
\* and its ids come on top.
MessagesFit ==
  \A r \in Records : \A x \in kept[r] :
    x.message.length \in MinLine + IdsLength .. LongestMessage
=============================================================================
