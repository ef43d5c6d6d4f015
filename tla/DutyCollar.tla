----------------------------- MODULE DutyCollar -----------------------------
(***************************************************************************)
(* The gated receive path of main.go and duty_runtime.go: every block of   *)
(* samples is either decoded or skipped, skipped blocks are retained in a  *)
(* ring (the collar), and the first decoded block after a sleep first      *)
(* replays the collar into the decoder (rebuildDutyDecoder).               *)
(*                                                                         *)
(* The scheduler's answer for a block is an input here (DutyScheduler      *)
(* models how it is made).  Receiver.Run calls processBlock from one       *)
(* goroutine, so a block is one step.  A block is its position 1, 2, ...   *)
(* in the sample stream; its position is also its time.  An encoder error  *)
(* ends the run; it is not modelled, since it only cuts a behaviour short. *)
(***************************************************************************)
EXTENDS Integers, Sequences, FiniteSets, SequencesExt

CONSTANTS
  Collar,     \* len(d.collar), dutyCollarBlockCount
  Warmup,     \* d.warmupBlocks: blocks in the decoder's window
  MaxBlocks,  \* bound on the length of the stream (model only)
  Gated       \* d.mode == ModeGated

\* dutyCollarBlockCount makes the collar longer than the warm-up.
ASSUME CollarAssumption ==
  /\ Warmup \in Nat /\ Warmup >= 1
  /\ Collar \in Nat /\ Collar > Warmup
  /\ MaxBlocks \in Nat
  /\ Gated \in BOOLEAN

Blocks == 1 .. MaxBlocks

(* A transmission is complete in one block; a packet that ends near the    *)
(* edge of that block is also found in the next one.                       *)
Transmissions == [block : Blocks, twice : BOOLEAN]

VARIABLES
  air,         \* the transmissions of this behaviour
  n,           \* blocks received
  history,     \* decoder history: the blocks its next answer depends on
  collar, collarCount, collarNext,
  wasSkipped, skippedRun,
  prev,        \* digests published from the previous decode (state.prev)
  dutyPrev,    \* digests observed in the previous decode (state.dutyPrev)
  out,         \* messages encoded so far
  obs,         \* scheduler.Observe and ObserveEscape calls so far
  err,         \* rcvr.err: the rebuild found no raw samples
  decisions    \* the decision taken for each block (model only)

collarVars == <<collar, collarCount, collarNext, wasSkipped, skippedRun>>
decodeVars == <<history, prev, dutyPrev, out, obs>>
vars == <<air, n, collarVars, decodeVars, err, decisions>>

NoBlock == -1 - Warmup  \* zeroed samples after Decoder.Reset: no block of the stream

CollarEntry == [id : Nat, decoded : BOOLEAN, rawValid : BOOLEAN]

-----------------------------------------------------------------------------
(* Decoder.Decode: the new block enters the window.  Its messages are      *)
(* found when the window, and the block before it whose last symbol the    *)
(* matched filter still needs, are the contiguous past of the stream.      *)
Feed(h, x) == Append(Tail(h), x)

ContiguousUpTo(h, x) == \A i \in DOMAIN h : h[i] = x - Len(h) + i

Found(h, x) ==
  {m \in air : /\ m.block = x \/ (m.twice /\ m.block = x - 1)
               /\ ContiguousUpTo(h, x)}

(* processDecodedMessages: the digests of this decode replace those of the *)
(* previous one; a message is published, and observed, unless the previous *)
(* decode already contained it.                                            *)
Deliver(log, found, seen, x, escaped) ==
  log \o SetToSeq({[msg |-> m, at |-> x, escaped |-> escaped] : m \in found \ seen})

DecodeBlock(d, x, publish, escaped) ==
  LET h == Feed(d.history, x)
      found == IF publish THEN Found(h, x) ELSE {}
  IN [history  |-> h,
      prev     |-> found,
      dutyPrev |-> found,
      out      |-> Deliver(d.out, found, d.prev, x, escaped),
      obs      |-> Deliver(d.obs, found, d.dutyPrev, x, escaped)]

decoderState ==
  [history |-> history, prev |-> prev, dutyPrev |-> dutyPrev, out |-> out, obs |-> obs]

(* Decoder.Reset and the clearing of the digest maps.                      *)
ResetDecoder(d) ==
  [d EXCEPT !.history = [i \in 1 .. Warmup + 1 |-> NoBlock],
            !.prev = {}, !.dutyPrev = {}]

-----------------------------------------------------------------------------
(* orderedCollar: the retained entries, oldest first.                      *)
CollarIndex(k) ==  \* slot of the k-th youngest entry
  IF collarNext - k < 0 THEN collarNext - k + Collar ELSE collarNext - k

OrderedCollar == [i \in 1 .. collarCount |-> collar[CollarIndex(collarCount - i + 1)]]

(* rebuildDutyDecoder: a sleep that is still completely in the collar is   *)
(* replayed through the decoder as it is; after a longer one the decoder   *)
(* is reset and the whole collar replayed, its first blocks only to warm   *)
(* the decoder up.                                                         *)
ShortReplay ==
  /\ skippedRun > 0 /\ skippedRun <= collarCount
  /\ \A k \in 1 .. skippedRun :
       ~collar[CollarIndex(k)].decoded /\ collar[CollarIndex(k)].rawValid

\* A bug: the replayed blocks are not reported as skipped.
ReplayShortUnmarked(d) ==
  FoldLeft(LAMBDA e, entry : DecodeBlock(e, entry.id, TRUE, FALSE), d,
           SubSeq(OrderedCollar, collarCount - skippedRun + 1, collarCount))

ReplayShort(d) ==
  FoldLeft(LAMBDA e, entry : DecodeBlock(e, entry.id, TRUE, TRUE), d,
           SubSeq(OrderedCollar, collarCount - skippedRun + 1, collarCount))

\* A bug: one more block only warms up.
PublishedLate(entry, i) == ~entry.decoded /\ i - 1 > Warmup

\* Is the i-th replayed entry published?
Published(entry, i) == ~entry.decoded /\ i - 1 >= Warmup

\* "full collar rebuild lacks retained raw IQ"
MissingRaw == \E k \in 1 .. collarCount : ~collar[CollarIndex(k)].rawValid

ReplayAll(d) ==
  LET entries == OrderedCollar
      firstBad == SelectInSeq(entries, LAMBDA entry : ~entry.rawValid)
      usable == IF firstBad = 0 THEN collarCount ELSE firstBad - 1
      publish(i) == Published(entries[i], i)
  IN FoldLeft(LAMBDA e, i : DecodeBlock(e, entries[i].id, publish(i), publish(i)),
              ResetDecoder(d), [i \in 1 .. usable |-> i])

Rebuild(d) == IF ShortReplay THEN ReplayShort(d) ELSE ReplayAll(d)

NeedsRebuild(decode) == Gated /\ wasSkipped /\ decode

\* A bug: the index may point one past the ring.
WrapLate(i) == IF i > Collar THEN 0 ELSE i

\* The ring index after i.
Wrap(i) == IF i = Collar THEN 0 ELSE i

\* A bug: a decoded block does not end the run.
SkippedRunKept(decode) == IF decode THEN skippedRun ELSE skippedRun + 1

\* Blocks skipped since the last decoded one.
SkippedRun(decode) == IF decode THEN 0 ELSE skippedRun + 1

(* finishBlock: the block enters the collar; its samples are kept only if  *)
(* it was skipped.                                                         *)
FinishBlock(x, decode) ==
  /\ collar' = [collar EXCEPT ![collarNext] =
                  [id |-> x, decoded |-> decode, rawValid |-> ~decode]]
  /\ collarNext' = Wrap(collarNext + 1)
  /\ collarCount' = IF collarCount < Collar THEN collarCount + 1 ELSE collarCount
  /\ skippedRun' = SkippedRun(decode)
  /\ wasSkipped' = ~decode

(* Receiver.processBlock for the next block of the stream.                 *)
ProcessBlock(decode) ==
  LET x == n + 1
      rebuilt == IF NeedsRebuild(decode) THEN Rebuild(decoderState) ELSE decoderState
      fails == NeedsRebuild(decode) /\ ~ShortReplay /\ MissingRaw
      after == IF decode /\ ~fails THEN DecodeBlock(rebuilt, x, TRUE, FALSE) ELSE rebuilt
  IN /\ ~err /\ n < MaxBlocks
     /\ Gated \/ decode            \* a shadow scheduler always says decode
     /\ n' = x
     /\ history' = after.history
     /\ prev' = after.prev /\ dutyPrev' = after.dutyPrev
     /\ out' = after.out /\ obs' = after.obs
     /\ err' = fails
     /\ IF fails THEN UNCHANGED collarVars ELSE FinishBlock(x, decode)
     /\ decisions' = Append(decisions, decode)
     /\ UNCHANGED air

Init ==
  /\ \E a, b \in Transmissions : air = {a, b}
  /\ n = 0
  /\ history = [i \in 1 .. Warmup + 1 |-> i - Warmup - 1]  \* silence before block 1
  /\ collar = [k \in 0 .. Collar - 1 |-> [id |-> 0, decoded |-> FALSE, rawValid |-> FALSE]]
  /\ collarCount = 0 /\ collarNext = 0
  /\ wasSkipped = FALSE /\ skippedRun = 0
  /\ prev = {} /\ dutyPrev = {}
  /\ out = <<>> /\ obs = <<>>
  /\ err = FALSE
  /\ decisions = <<>>

Next == \E decode \in BOOLEAN : ProcessBlock(decode)

Spec == Init /\ [][Next]_vars

-----------------------------------------------------------------------------
TypeOK ==
  /\ n \in Nat
  /\ collar \in [0 .. Collar - 1 -> CollarEntry]
  /\ collarCount \in 0 .. Collar
  /\ collarNext \in 0 .. Collar - 1
  /\ wasSkipped \in BOOLEAN
  /\ skippedRun \in Nat
  /\ err \in BOOLEAN

(* The comment in finishBlock: a decoded block is never needed for a       *)
(* replay, so its samples need not be kept.  No rebuild ever meets an      *)
(* entry without samples.                                                  *)
NoMissingRaw == ~err

(* What should have been heard, from the decisions alone: a decoded block, *)
(* and a skipped one whose sleep has ended and that was not too old for    *)
(* the collar, or inside its warm-up, when the decoder woke.               *)
SleepEnd(x) == CHOOSE e \in x .. n : /\ \A y \in x .. e : ~decisions[y]
                                     /\ e = n \/ decisions[e + 1]
SleepStart(x) == CHOOSE s \in 1 .. x : /\ \A y \in s .. x : ~decisions[y]
                                       /\ s = 1 \/ decisions[s - 1]
Heard(x) ==
  \/ decisions[x]
  \/ /\ SleepEnd(x) < n
     /\ \/ SleepEnd(x) - SleepStart(x) + 1 <= Collar
        \/ x > SleepEnd(x) - Collar + Warmup

Audible(m) == {x \in Blocks : x <= n /\ (x = m.block \/ (m.twice /\ x = m.block + 1))}

Count(log, m) == Cardinality({i \in DOMAIN log : log[i].msg = m})

(* Across every pattern of sleeps, wakes, short replays and full rebuilds, *)
(* each transmission that was in a heard block is printed exactly once,    *)
(* and no other is.                                                        *)
PublishedExactlyOnce ==
  \A m \in air : Count(out, m) = IF \E x \in Audible(m) : Heard(x) THEN 1 ELSE 0

(* The scheduler is told of each such transmission once, as an escape      *)
(* exactly when its block had been skipped (PERFORMANCE.md: "explicitly    *)
(* reported as an escape"), and in the order of the sample clock although  *)
(* skipped blocks are replayed after a later block has been scheduled.     *)
EscapesReported ==
  /\ \A m \in air : Count(obs, m) = Count(out, m)
  /\ \A i \in DOMAIN obs : obs[i].escaped <=> ~decisions[obs[i].at]
  /\ \A i, j \in DOMAIN obs : i < j => obs[i].at <= obs[j].at

-----------------------------------------------------------------------------
(* Inductive invariant (DutyCollarProofs): the youngest entries of the     *)
(* collar are the current sleep, in order, with their samples.             *)
CollarTail ==
  /\ skippedRun <= n
  /\ wasSkipped <=> skippedRun > 0
  /\ skippedRun > collarCount => collarCount = Collar
  /\ collarCount < Collar => collarNext = collarCount
  /\ \A k \in 1 .. collarCount :
       k <= skippedRun =>
         /\ collar[CollarIndex(k)].id = n - k + 1
         /\ ~collar[CollarIndex(k)].decoded /\ collar[CollarIndex(k)].rawValid

CollarInv == CollarTail /\ NoMissingRaw
=============================================================================
