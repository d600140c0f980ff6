--------------------------- MODULE RecordTail_proofs ---------------------------
(***************************************************************************)
(* Proofs about RecordTail, for any number of threads, outcomes and faults *)
(* and any size of batch: where a row can be while threads flush over each *)
(* other without a lock, who is left to send a full buffer, what a server  *)
(* that stops in order still has to do, and how old the snapshot may be.   *)
(***************************************************************************)
EXTENDS RecordTail, SequenceTheorems, FiniteSetTheorems, TLAPS

-------------------------------------------------------------------------------
(* Types                                                                     *)

Places ==
  {"idle", "produce", "lookup", "append", "full", "flush", "render", "post", "count", "counted",
   "save", "stamp", "successes", "failures", "set"}

Counts == [successes : SUBSET Nat, failures : SUBSET Nat]

Snapshots == [successes : SUBSET Nat, failures : SUBSET Nat, at : Int]

PipelineTypes ==
  /\ pc \in [Threads -> Places]
  /\ event \in [Threads -> Nat]
  /\ ref \in [Threads -> Nat]
  /\ body \in [Threads -> Seq(Nat)]
  /\ lists \in Seq(Seq(Nat)) /\ lists # <<>>
  /\ table \in Seq(Nat)
  /\ credited \in Seq(Int) /\ clock \in Int
  /\ \A t \in Threads : pc[t] \in {"append", "render", "post"} => ref[t] \in DOMAIN lists

SnapshotTypes ==
  /\ faults \in Nat
  /\ stopping \in BOOLEAN
  /\ posterior \in Counts
  /\ key \in Snapshots \cup {Nothing}
  /\ now \in [Threads -> Int]
  /\ payload = [t \in Threads |-> payload[t]]
  /\ \A t \in Threads : pc[t] \in {"failures", "set"} => payload[t] \in Snapshots

-------------------------------------------------------------------------------
(* The inductive invariants                                                  *)

In(n, o) == \E a \in DOMAIN lists[n] : lists[n][a] = o

Sent(o) == \E n \in DOMAIN table : table[n] = o

\* Where a thread holds an outcome that is in no list yet, and where it holds a
\* list that it took from the buffer.
Pending == {"produce", "lookup", "append"}

Sending == {"render", "post"}

\* An outcome that is to be appended is nowhere, and nobody else's.
PendingFresh ==
  /\ \A t \in Threads : pc[t] \in Pending =>
       /\ event[t] \in DOMAIN credited
       /\ ~Sent(event[t])
       /\ \A n \in DOMAIN lists : ~In(n, event[t])
  /\ \A t, u \in Threads :
       pc[t] \in Pending /\ pc[u] \in Pending /\ event[t] = event[u] => t = u

\* An outcome is in at most one list, once.
ListsApart ==
  \A m, n \in DOMAIN lists : \A a \in DOMAIN lists[m], b \in DOMAIN lists[n] :
    /\ lists[m][a] \in DOMAIN credited
    /\ lists[m][a] = lists[n][b] => m = n /\ a = b

TableKnown == \A n \in DOMAIN table : table[n] \in DOMAIN credited

\* A list is sent by at most one thread, and is no longer the buffer by then.
SendersApart ==
  /\ \A t \in Threads : pc[t] \in Sending => ref[t] \in DOMAIN lists /\ ref[t] # Len(lists)
  /\ \A t, u \in Threads :
       pc[t] \in Sending /\ pc[u] \in Sending /\ ref[t] = ref[u] => t = u

\* A list with a row that was sent is neither the buffer nor still to be sent.
SentIsSpent ==
  \A k \in DOMAIN table, n \in DOMAIN lists : In(n, table[k]) =>
    /\ n # Len(lists)
    /\ \A t \in Threads : pc[t] \in Sending => ref[t] # n

\* What a thread has rendered are rows of its list, each once.
Rendered ==
  \A t \in Threads : pc[t] = "post" =>
    /\ \A a \in DOMAIN body[t] : In(ref[t], body[t][a])
    /\ \A a, b \in DOMAIN body[t] : body[t][a] = body[t][b] => a = b

RowInv ==
  /\ PipelineTypes /\ PendingFresh /\ ListsApart /\ TableKnown /\ NoRowTwice
  /\ SendersApart /\ SentIsSpent /\ Rendered

\* A full buffer has a thread that is about to find it so, or to flush it.
FullIsSeen == Len(Buffer) >= BatchSize => \E t \in Threads : pc[t] \in {"full", "flush"}

\* Unless something failed, the posterior has every outcome.
Absorbed ==
  faults = 0 => posterior.successes = DOMAIN credited /\ posterior.failures = DOMAIN credited

StopPlaces ==
  {"flush", "render", "post", "count", "counted", "save", "stamp", "successes", "failures", "set"}

\* A server that stops runs one thread, through flush and a forced save.
OneStops ==
  stopping =>
    /\ \A t \in Threads : pc[t] \in StopPlaces \cup {"idle"}
    /\ \A t, u \in Threads : pc[t] # "idle" /\ pc[u] # "idle" => t = u

\* What that thread has done so far.
Finishing ==
  faults = 0 /\ stopping => \A t \in Threads :
    /\ pc[t] \in StopPlaces \ {"flush"} => Buffer = <<>>
    /\ pc[t] \in {"failures", "set"} => payload[t].successes = DOMAIN credited
    /\ pc[t] = "set" => payload[t].failures = DOMAIN credited

StopInv == SnapshotTypes /\ Absorbed /\ OneStops /\ Finishing /\ CleanStopKeepsAll

\* A thread that is writing the key, and one whose stamp is set.
Writing == {"stamp", "successes", "failures", "set"}

Stamped == Writing \ {"stamp"}

ClockInv ==
  /\ clock \in Nat /\ lastWrite \in Int /\ lastWrite <= clock
  /\ \A o \in DOMAIN credited : credited[o] <= clock
  /\ \A t \in Threads : pc[t] \in Writing => now[t] <= clock /\ clock <= now[t] + SaveSeconds

\* What was absorbed before a save began is in what it copies.
CopiedInv ==
  \A t \in Threads : pc[t] \in {"failures", "set"} =>
    /\ payload[t].at = now[t]
    /\ \A o \in DOMAIN credited : credited[o] < now[t] =>
         /\ o \in payload[t].successes
         /\ pc[t] = "set" => o \in payload[t].failures

KeyInv ==
  key # Nothing =>
    /\ key.at <= clock
    /\ \A o \in DOMAIN credited :
         credited[o] < key.at => o \in key.successes /\ o \in key.failures

\* A stamp that keeps saves away is that of a save under way, or of one about as
\* old as the key.
SpacedInv ==
  clock - lastWrite < Interval =>
    \/ \E t \in Threads : pc[t] \in Stamped
    \/ key # Nothing /\ lastWrite <= key.at + SaveSeconds

Recent(o) == key # Nothing /\ credited[o] < key.at + Interval + SaveSeconds

CoveredInv == AllIdle => \A o \in DOMAIN credited : Recent(o)

KeepInv == ClockInv /\ (faults = 0 => CopiedInv /\ KeyInv /\ SpacedInv /\ CoveredInv)

-------------------------------------------------------------------------------
(* Lemmas                                                                    *)

\* One member of a sequence is replaced.
LEMMA Replaced ==
  ASSUME NEW S, NEW q \in Seq(S), NEW k \in DOMAIN q, NEW v \in S
  PROVE  /\ [q EXCEPT ![k] = v] \in Seq(S)
         /\ DOMAIN [q EXCEPT ![k] = v] = DOMAIN q
         /\ Len([q EXCEPT ![k] = v]) = Len(q)
         /\ [q EXCEPT ![k] = v][k] = v
         /\ \A n \in DOMAIN q \ {k} : [q EXCEPT ![k] = v][n] = q[n]
OBVIOUS

\* A sequence gets one more member.
LEMMA Extended ==
  ASSUME NEW S, NEW q \in Seq(S), NEW v \in S, NEW r, r = Append(q, v)
  PROVE  /\ r \in Seq(S) /\ r # <<>>
         /\ Len(q) \in Nat /\ Len(r) = Len(q) + 1
         /\ DOMAIN r = DOMAIN q \cup {Len(r)}
         /\ Len(r) \notin DOMAIN q
         /\ r[Len(r)] = v
         /\ \A a \in DOMAIN q : r[a] = q[a]
<1>1. r \in Seq(S) /\ Len(q) \in Nat /\ Len(r) = Len(q) + 1 /\ r # <<>>
  OBVIOUS
<1>2. DOMAIN q = 1..Len(q) /\ DOMAIN r = 1..(Len(q) + 1)
  BY <1>1
<1>3. DOMAIN r = DOMAIN q \cup {Len(q) + 1} /\ Len(q) + 1 \notin DOMAIN q
  BY <1>1, <1>2
<1>4. r[Len(q) + 1] = v /\ \A a \in DOMAIN q : r[a] = q[a]
  BY <1>1, <1>2
<1> QED
  BY <1>1, <1>3, <1>4

\* A step that changes no list, no row and no record of when outcomes came only
\* has to keep what it says of its own thread.
LEMMA OwnStep ==
  ASSUME RowInv, NEW t \in Threads, UNCHANGED <<lists, table, credited>>, PipelineTypes',
         \A u \in Threads \ {t} :
           pc'[u] = pc[u] /\ event'[u] = event[u] /\ ref'[u] = ref[u] /\ body'[u] = body[u],
         pc'[t] \in Pending => pc[t] \in Pending /\ event'[t] = event[t],
         pc'[t] \in Sending => pc[t] \in Sending /\ ref'[t] = ref[t],
         pc'[t] = "post" => \/ pc[t] = "post" /\ body'[t] = body[t]
                            \/ pc[t] = "render" /\ body'[t] = lists[ref[t]]
  PROVE  RowInv'
<1>1. /\ PipelineTypes /\ PendingFresh /\ ListsApart /\ TableKnown /\ NoRowTwice
      /\ SendersApart /\ SentIsSpent /\ Rendered
  BY DEF RowInv
<1>2. \A u \in Threads : pc'[u] \in Pending => pc[u] \in Pending /\ event'[u] = event[u]
  OBVIOUS
<1>3. \A u \in Threads : pc'[u] \in Sending => pc[u] \in Sending /\ ref'[u] = ref[u]
  OBVIOUS
<1>4. PendingFresh'
  BY <1>1, <1>2 DEF PendingFresh, In, Sent
<1>5. SendersApart' /\ SentIsSpent'
  BY <1>1, <1>3 DEF SendersApart, SentIsSpent, In
<1>6. ListsApart' /\ TableKnown' /\ NoRowTwice'
  BY <1>1 DEF ListsApart, TableKnown, NoRowTwice
<1>7. Rendered'
  <2> SUFFICES ASSUME NEW u \in Threads, pc'[u] = "post"
               PROVE  /\ \A a \in DOMAIN body'[u] : In(ref[u], body[u][a])'
                      /\ \A a, b \in DOMAIN body'[u] : body'[u][a] = body'[u][b] => a = b
    BY DEF Rendered
  <2>1. ref'[u] = ref[u] /\ pc[u] \in Sending
    BY <1>3 DEF Sending
  <2>2. CASE pc[u] = "post" /\ body'[u] = body[u]
    BY <1>1, <2>1, <2>2 DEF Rendered, In
  <2>3. CASE pc[u] = "render" /\ body'[u] = lists[ref[u]]
    <3>1. ref[u] \in DOMAIN lists
      BY <1>1, <2>1 DEF SendersApart
    <3> QED
      BY <1>1, <2>1, <2>3, <3>1 DEF ListsApart, In
  <2> QED
    BY <2>2, <2>3
<1> QED
  BY <1>4, <1>5, <1>6, <1>7 DEF RowInv

LEMMA RecordKeeps ==
  ASSUME RowInv, NEW t \in Threads, Record(t)
  PROVE  RowInv'
<1>1. /\ PipelineTypes /\ PendingFresh /\ ListsApart /\ TableKnown /\ NoRowTwice
      /\ SendersApart /\ SentIsSpent /\ Rendered
  BY DEF RowInv
<1> DEFINE o == Len(credited) + 1
<1>2. /\ pc[t] = "idle" /\ pc' = [pc EXCEPT ![t] = "produce"]
      /\ event' = [event EXCEPT ![t] = o] /\ credited' = Append(credited, clock)
      /\ UNCHANGED <<lists, table, ref, body, clock>>
  BY DEF Record, Goto
<1>3. /\ o \in Nat /\ o \notin DOMAIN credited
      /\ DOMAIN credited' = DOMAIN credited \cup {o} /\ credited' \in Seq(Int)
  <2>1. credited \in Seq(Int) /\ clock \in Int /\ credited' = Append(credited, clock)
    BY <1>1, <1>2 DEF PipelineTypes
  <2> QED
    BY <2>1, Extended
<1>4. PipelineTypes'
  BY <1>1, <1>2, <1>3 DEF PipelineTypes, Places
<1>5. /\ \A u \in Threads \ {t} : pc'[u] = pc[u] /\ event'[u] = event[u]
      /\ pc'[t] = "produce" /\ event'[t] = o
  BY <1>1, <1>2 DEF PipelineTypes
<1> HIDE DEF o
<1>6. ~Sent(o) /\ \A n \in DOMAIN lists : ~In(n, o)
  BY <1>1, <1>3 DEF ListsApart, TableKnown, In, Sent
<1>7. PendingFresh'
  BY <1>1, <1>2, <1>3, <1>5, <1>6 DEF PendingFresh, In, Sent
<1>8. ListsApart' /\ TableKnown' /\ NoRowTwice'
  BY <1>1, <1>2, <1>3 DEF ListsApart, TableKnown, NoRowTwice
<1>9. SendersApart' /\ SentIsSpent' /\ Rendered'
  BY <1>1, <1>2, <1>5 DEF SendersApart, SentIsSpent, Rendered, Sending, In
<1> QED
  BY <1>4, <1>7, <1>8, <1>9 DEF RowInv

LEMMA AppendKeeps ==
  ASSUME RowInv, NEW t \in Threads, AppendRow(t), UNCHANGED <<credited, clock>>
  PROVE  RowInv'
<1>1. /\ PipelineTypes /\ PendingFresh /\ ListsApart /\ TableKnown /\ NoRowTwice
      /\ SendersApart /\ SentIsSpent /\ Rendered
  BY DEF RowInv
<1> DEFINE k == ref[t]
           o == event[t]
           row == Append(lists[k], o)
<1>2. /\ pc[t] = "append" /\ pc' = [pc EXCEPT ![t] = "full"]
      /\ lists' = [lists EXCEPT ![k] = row]
      /\ UNCHANGED <<table, event, ref, body, credited, clock>>
  BY DEF AppendRow, Goto, pipelineLocals
<1>3. k \in DOMAIN lists /\ lists \in Seq(Seq(Nat)) /\ lists[k] \in Seq(Nat) /\ o \in Nat
  BY <1>1, <1>2 DEF PipelineTypes
<1> HIDE DEF k, o
<1>4. row = Append(lists[k], o)
  OBVIOUS
<1> HIDE DEF row
<1>5. /\ row \in Seq(Nat)
      /\ DOMAIN row = DOMAIN lists[k] \cup {Len(row)}
      /\ Len(row) \notin DOMAIN lists[k]
      /\ row[Len(row)] = o
      /\ \A a \in DOMAIN lists[k] : row[a] = lists[k][a]
  BY <1>3, <1>4, Extended, SMTT(30)
<1>6. /\ lists' \in Seq(Seq(Nat)) /\ DOMAIN lists' = DOMAIN lists /\ Len(lists') = Len(lists)
      /\ lists'[k] = row /\ \A n \in DOMAIN lists \ {k} : lists'[n] = lists[n]
  BY <1>2, <1>3, <1>5, Replaced
<1>7. \A n \in DOMAIN lists : \A x : In(n, x)' <=> In(n, x) \/ (n = k /\ x = o)
  BY <1>5, <1>6 DEF In
<1>8. /\ o \in DOMAIN credited /\ ~Sent(o) /\ \A n \in DOMAIN lists : ~In(n, o)
      /\ \A u \in Threads \ {t} : pc[u] \in Pending => event[u] # o
  BY <1>1, <1>2 DEF PendingFresh, Pending, o
<1>9. pc'[t] = "full" /\ \A u \in Threads \ {t} : pc'[u] = pc[u]
  BY <1>1, <1>2 DEF PipelineTypes
<1>10. PipelineTypes'
  <2>1. lists' # <<>>
    BY <1>3, <1>6
  <2> QED
    BY <1>1, <1>2, <1>6, <1>9, <2>1 DEF PipelineTypes, Places
<1>11. PendingFresh'
  <2>1. \A u \in Threads : pc'[u] \in Pending => u # t /\ pc[u] \in Pending
    BY <1>9 DEF Pending
  <2> QED
    BY <1>1, <1>2, <1>6, <1>7, <1>8, <2>1 DEF PendingFresh, Sent
<1>12. ListsApart'
  <2>1. \A m \in DOMAIN lists : \A a \in DOMAIN lists'[m] :
          \/ a \in DOMAIN lists[m] /\ lists'[m][a] = lists[m][a]
          \/ m = k /\ a = Len(row) /\ lists'[m][a] = o
    BY <1>5, <1>6
  <2>2. \A m \in DOMAIN lists : \A a \in DOMAIN lists[m] : lists[m][a] # o
    BY <1>8 DEF In
  <2>0. DOMAIN lists' = DOMAIN lists /\ DOMAIN credited' = DOMAIN credited
    BY <1>2, <1>6
  <2> SUFFICES ASSUME NEW m \in DOMAIN lists, NEW n \in DOMAIN lists,
                      NEW a \in DOMAIN lists'[m], NEW b \in DOMAIN lists'[n]
               PROVE  /\ lists'[m][a] \in DOMAIN credited
                      /\ lists'[m][a] = lists'[n][b] => m = n /\ a = b
    BY <2>0 DEF ListsApart
  <2>3. lists'[m][a] \in DOMAIN credited
    BY <1>1, <1>8, <2>1 DEF ListsApart
  <2>4. ASSUME lists'[m][a] = lists'[n][b]
        PROVE  m = n /\ a = b
    <3>1. CASE a \in DOMAIN lists[m] /\ lists'[m][a] = lists[m][a]
      <4>1. b \in DOMAIN lists[n] /\ lists'[n][b] = lists[n][b]
        BY <2>1, <2>2, <2>4, <3>1
      <4>2. lists[m][a] = lists[n][b]
        BY <2>4, <3>1, <4>1
      <4> QED
        BY <1>1, <3>1, <4>1, <4>2 DEF ListsApart
    <3>2. CASE m = k /\ a = Len(row) /\ lists'[m][a] = o
      <4>1. n = k /\ b = Len(row)
        BY <2>1, <2>2, <2>4, <3>2
      <4> QED
        BY <3>2, <4>1
    <3> QED
      BY <2>1, <3>1, <3>2
  <2> QED
    BY <2>3, <2>4
<1>13. TableKnown' /\ NoRowTwice'
  BY <1>1, <1>2 DEF TableKnown, NoRowTwice
<1>14. \A u \in Threads : pc'[u] \in Sending => pc[u] \in Sending
  BY <1>9 DEF Sending
<1>15. SendersApart'
  BY <1>1, <1>2, <1>6, <1>14 DEF SendersApart
<1>16. SentIsSpent'
  <2> SUFFICES ASSUME NEW i \in DOMAIN table, NEW n \in DOMAIN lists, In(n, table[i])'
               PROVE  n # Len(lists) /\ \A u \in Threads : pc'[u] \in Sending => ref[u] # n
    BY <1>2, <1>6 DEF SentIsSpent
  <2>1. table[i] # o
    BY <1>8 DEF Sent
  <2>2. In(n, table[i])
    BY <1>2, <1>7, <2>1 DEF In
  <2> QED
    BY <1>1, <1>14, <2>2 DEF SentIsSpent
<1>17. Rendered'
  <2> SUFFICES ASSUME NEW u \in Threads, pc'[u] = "post"
               PROVE  /\ \A a \in DOMAIN body[u] : In(ref[u], body[u][a])'
                      /\ \A a, b \in DOMAIN body[u] : body[u][a] = body[u][b] => a = b
    BY <1>2 DEF Rendered, In
  <2>1. u # t /\ pc[u] = "post" /\ ref[u] \in DOMAIN lists
    BY <1>1, <1>9 DEF PipelineTypes
  <2>2. \A x : In(ref[u], x) => In(ref[u], x)'
    BY <1>2, <1>7, <2>1 DEF In
  <2> QED
    BY <1>1, <1>2, <2>1, <2>2 DEF Rendered, In
<1> QED
  BY <1>10, <1>11, <1>12, <1>13, <1>15, <1>16, <1>17 DEF RowInv

\* The buffer is taken: nobody holds that list, and no row of it was sent.
LEMMA TakeKeeps ==
  ASSUME RowInv, NEW t \in Threads, pc[t] = "flush",
         pc' = [pc EXCEPT ![t] = "render"], ref' = [ref EXCEPT ![t] = Len(lists)],
         lists' = Append(lists, <<>>),
         UNCHANGED <<table, event, body, credited, clock>>
  PROVE  RowInv'
<1>1. /\ PipelineTypes /\ PendingFresh /\ ListsApart /\ TableKnown /\ NoRowTwice
      /\ SendersApart /\ SentIsSpent /\ Rendered
  BY DEF RowInv
<1>2. lists \in Seq(Seq(Nat)) /\ <<>> \in Seq(Nat) /\ lists # <<>>
  BY <1>1 DEF PipelineTypes
<1>3. /\ lists' \in Seq(Seq(Nat)) /\ lists' # <<>>
      /\ Len(lists) \in Nat /\ Len(lists') = Len(lists) + 1
      /\ DOMAIN lists' = DOMAIN lists \cup {Len(lists')}
      /\ lists'[Len(lists')] = <<>>
      /\ \A n \in DOMAIN lists : lists'[n] = lists[n]
  BY <1>2, Extended, SMTT(30)
<1>4. Len(lists) \in DOMAIN lists /\ \A n \in DOMAIN lists : n \in Nat /\ n # Len(lists')
  BY <1>2, <1>3
<1>5. /\ pc'[t] = "render" /\ ref'[t] = Len(lists)
      /\ \A u \in Threads \ {t} : pc'[u] = pc[u] /\ ref'[u] = ref[u]
  BY <1>1 DEF PipelineTypes
<1>6. PipelineTypes'
  BY <1>1, <1>3, <1>4, <1>5 DEF PipelineTypes, Places
<1>7. \A n \in DOMAIN lists' : \A x : In(n, x)' <=> n \in DOMAIN lists /\ In(n, x)
  BY <1>3, <1>4 DEF In
<1>8. PendingFresh'
  <2>1. \A u \in Threads : pc'[u] \in Pending => pc[u] \in Pending
    BY <1>5 DEF Pending
  <2> QED
    BY <1>1, <1>7, <2>1 DEF PendingFresh, Sent, In
<1>9. ListsApart'
  <2>1. \A n \in DOMAIN lists' : \A a \in DOMAIN lists'[n] :
          n \in DOMAIN lists /\ a \in DOMAIN lists[n] /\ lists'[n][a] = lists[n][a]
    BY <1>3
  <2> QED
    BY <1>1, <2>1 DEF ListsApart
<1>10. TableKnown' /\ NoRowTwice'
  BY <1>1 DEF TableKnown, NoRowTwice
<1>11. SendersApart'
  BY <1>1, <1>3, <1>4, <1>5 DEF SendersApart, Sending
<1>12. SentIsSpent'
  <2> SUFFICES ASSUME NEW k \in DOMAIN table, NEW n \in DOMAIN lists', In(n, table[k])'
               PROVE  n # Len(lists') /\ \A u \in Threads : pc'[u] \in Sending => ref'[u] # n
    BY DEF SentIsSpent
  <2>1. n \in DOMAIN lists /\ In(n, table[k])
    BY <1>7 DEF In
  <2> QED
    BY <1>1, <1>4, <1>5, <2>1 DEF SentIsSpent, Sending
<1>13. Rendered'
  <2> SUFFICES ASSUME NEW u \in Threads, pc'[u] = "post"
               PROVE  /\ \A a \in DOMAIN body'[u] : In(ref[u], body[u][a])'
                      /\ \A a, b \in DOMAIN body'[u] : body'[u][a] = body'[u][b] => a = b
    BY DEF Rendered
  <2>1. u # t /\ pc[u] = "post" /\ ref'[u] = ref[u] /\ ref[u] \in DOMAIN lists
    BY <1>1, <1>5 DEF PipelineTypes
  <2>2. \A x : In(ref[u], x) => In(ref[u], x)'
    BY <1>3, <2>1 DEF In
  <2> QED
    BY <1>1, <2>1, <2>2 DEF Rendered, In
<1> QED
  BY <1>6, <1>8, <1>9, <1>10, <1>11, <1>12, <1>13 DEF RowInv

\* The rows a thread has rendered reach the table: none was there, and the thread
\* is done with their list, which nobody else has.
LEMMA PostKeeps ==
  ASSUME RowInv, NEW t \in Threads, pc[t] = "post", PipelineTypes',
         table' = table \o body[t], UNCHANGED <<lists, credited>>,
         \A u \in Threads \ {t} :
           pc'[u] = pc[u] /\ event'[u] = event[u] /\ ref'[u] = ref[u] /\ body'[u] = body[u],
         pc'[t] \in {"count", "idle"}
  PROVE  RowInv'
<1>1. /\ PipelineTypes /\ PendingFresh /\ ListsApart /\ TableKnown /\ NoRowTwice
      /\ SendersApart /\ SentIsSpent /\ Rendered
  BY DEF RowInv
<1> DEFINE sent == body[t]
<1>2. table \in Seq(Nat) /\ sent \in Seq(Nat) /\ table' = table \o sent
  BY <1>1 DEF PipelineTypes
<1>3. pc[t] \in Sending /\ ref[t] \in DOMAIN lists /\ ref[t] # Len(lists)
  BY <1>1 DEF Sending, SendersApart
<1>4. /\ \A a \in DOMAIN sent : In(ref[t], sent[a])
      /\ \A a, b \in DOMAIN sent : sent[a] = sent[b] => a = b
  BY <1>1 DEF Rendered
<1> HIDE DEF sent
<1>5. \A k \in DOMAIN table' :
        \/ k \in DOMAIN table /\ table'[k] = table[k]
        \/ /\ k \notin DOMAIN table
           /\ k - Len(table) \in DOMAIN sent /\ table'[k] = sent[k - Len(table)]
  BY <1>2
<1>6. DOMAIN table' \subseteq Int /\ Len(table) \in Int
  BY <1>2
<1>7. \A k \in DOMAIN table, a \in DOMAIN sent : table[k] # sent[a]
  BY <1>1, <1>3, <1>4 DEF SentIsSpent
<1>8. NoRowTwice'
  <2> SUFFICES ASSUME NEW i \in DOMAIN table', NEW j \in DOMAIN table', table'[i] = table'[j]
               PROVE  i = j
    BY DEF NoRowTwice
  <2>1. CASE i \in DOMAIN table /\ j \in DOMAIN table
    BY <1>1, <1>5, <2>1 DEF NoRowTwice
  <2>2. CASE i \notin DOMAIN table /\ j \notin DOMAIN table
    <3>1. i - Len(table) = j - Len(table)
      BY <1>4, <1>5, <2>2
    <3> QED
      BY <1>6, <3>1
  <2>3. CASE ~(i \in DOMAIN table <=> j \in DOMAIN table)
    BY <1>5, <1>7, <2>3
  <2> QED
    BY <2>1, <2>2, <2>3
<1>9. \A u \in Threads : /\ pc'[u] \in Pending => u # t /\ pc[u] \in Pending
                         /\ pc'[u] \in Sending => u # t /\ pc[u] \in Sending
                         /\ pc'[u] = "post" => u # t /\ pc[u] = "post"
  BY DEF Pending, Sending
<1>10. TableKnown'
  <2>1. \A a \in DOMAIN sent : sent[a] \in DOMAIN credited
    BY <1>1, <1>3, <1>4 DEF ListsApart, In
  <2> QED
    BY <1>1, <1>5, <2>1 DEF TableKnown
<1>11. PendingFresh'
  <2>1. \A u \in Threads : pc[u] \in Pending => \A a \in DOMAIN sent : sent[a] # event[u]
    BY <1>1, <1>3, <1>4 DEF PendingFresh
  <2>2. \A u \in Threads : pc[u] \in Pending =>
          \A k \in DOMAIN table' : table'[k] # event[u]
    BY <1>1, <1>5, <2>1 DEF PendingFresh, Sent
  <2> QED
    BY <1>1, <1>9, <2>2 DEF PendingFresh, Sent, In
<1>12. ListsApart'
  BY <1>1 DEF ListsApart
<1>13. SendersApart'
  BY <1>1, <1>9 DEF SendersApart
<1>14. SentIsSpent'
  <2> SUFFICES ASSUME NEW k \in DOMAIN table', NEW n \in DOMAIN lists, In(n, table'[k])
               PROVE  n # Len(lists) /\ \A u \in Threads : pc'[u] \in Sending => ref'[u] # n
    BY DEF SentIsSpent, In
  <2>1. CASE k \in DOMAIN table
    BY <1>1, <1>5, <1>9, <2>1 DEF SentIsSpent
  <2>2. CASE k \notin DOMAIN table
    <3>1. In(ref[t], table'[k])
      BY <1>4, <1>5, <2>2
    <3>2. n = ref[t]
      BY <1>1, <1>3, <3>1 DEF ListsApart, In
    <3> QED
      BY <1>1, <1>3, <1>9, <3>2 DEF SendersApart
  <2> QED
    BY <2>1, <2>2
<1>15. Rendered'
  BY <1>1, <1>9 DEF Rendered, In
<1> QED
  BY <1>8, <1>10, <1>11, <1>12, <1>13, <1>14, <1>15 DEF RowInv

\* A new process has no lists; the table stays.
LEMMA StartKeeps ==
  ASSUME RowInv, NEW counts, Start(counts)
  PROVE  RowInv'
<1>1. /\ PipelineTypes /\ TableKnown /\ NoRowTwice
      /\ pc' = [t \in Threads |-> "idle"] /\ event' = [t \in Threads |-> 0]
      /\ ref' = [t \in Threads |-> 0] /\ body' = [t \in Threads |-> <<>>]
      /\ lists' = << <<>> >> /\ UNCHANGED <<table, credited, clock>>
  BY DEF RowInv, Start, Forgotten
<1>2. PipelineTypes'
  BY <1>1 DEF PipelineTypes, Places
<1>3. \A t \in Threads : pc'[t] = "idle"
  BY <1>1
<1>4. lists'[1] = <<>> /\ DOMAIN lists' = {1}
  BY <1>1
<1>5. ListsApart' /\ SentIsSpent'
  BY <1>4 DEF ListsApart, SentIsSpent, In
<1>6. PendingFresh' /\ SendersApart' /\ Rendered'
  BY <1>3 DEF PendingFresh, SendersApart, Rendered, Pending, Sending
<1>7. TableKnown' /\ NoRowTwice'
  BY <1>1 DEF TableKnown, NoRowTwice
<1> QED
  BY <1>2, <1>5, <1>6, <1>7 DEF RowInv

\* A thread goes on to a step at which it holds neither an event nor a list.
LEMMA GoesOn ==
  ASSUME RowInv, NEW t \in Threads, NEW where \in Places \ (Pending \cup Sending),
         pc' = [pc EXCEPT ![t] = where],
         UNCHANGED <<lists, table, credited, clock, event, ref, body>>
  PROVE  RowInv'
<1>1. PipelineTypes
  BY DEF RowInv
<1>2. pc'[t] = where /\ \A u \in Threads \ {t} : pc'[u] = pc[u]
  BY <1>1 DEF PipelineTypes
<1>3. PipelineTypes'
  BY <1>1, <1>2 DEF PipelineTypes, Pending, Sending
<1> QED
  BY <1>2, <1>3, OwnStep DEF Pending, Sending

\* A thread leaves the pipeline with what it held; no row was sent.
LEMMA Leaves ==
  ASSUME RowInv, NEW t \in Threads, NEW where \in {"save", "idle"},
         pc' = [pc EXCEPT ![t] = where], Forget(t),
         UNCHANGED <<lists, table, credited, clock>>
  PROVE  PipelineTypes' /\ RowInv'
<1>1. PipelineTypes
  BY DEF RowInv
<1>2. /\ pc'[t] = where
      /\ \A u \in Threads \ {t} :
           pc'[u] = pc[u] /\ event'[u] = event[u] /\ ref'[u] = ref[u] /\ body'[u] = body[u]
  BY <1>1 DEF PipelineTypes, Forget
<1>3. PipelineTypes'
  BY <1>1, <1>2 DEF PipelineTypes, Places, Forget
<1> QED
  BY <1>2, <1>3, OwnStep DEF Pending, Sending

\* Of a thread that renders its list.
LEMMA RenderKeeps ==
  ASSUME RowInv, NEW t \in Threads, Render(t), UNCHANGED <<credited, clock>>
  PROVE  RowInv'
<1>1. /\ PipelineTypes /\ pc[t] = "render" /\ pc' = [pc EXCEPT ![t] = "post"]
      /\ body' = [body EXCEPT ![t] = lists[ref[t]]]
      /\ UNCHANGED <<lists, table, credited, clock, event, ref>>
  BY DEF RowInv, Render, Goto
<1>2. /\ pc'[t] = "post" /\ body'[t] = lists[ref[t]]
      /\ \A u \in Threads \ {t} : pc'[u] = pc[u] /\ body'[u] = body[u]
  BY <1>1 DEF PipelineTypes
<1>3. lists[ref[t]] \in Seq(Nat)
  BY <1>1 DEF PipelineTypes
<1>4. PipelineTypes'
  BY <1>1, <1>2, <1>3 DEF PipelineTypes, Places
<1> QED
  BY <1>1, <1>2, <1>4, OwnStep DEF Pending, Sending

LEMMA PostStepKeeps ==
  ASSUME RowInv, NEW t \in Threads, Post(t) \/ PostRaises(t), UNCHANGED <<credited, clock>>
  PROVE  RowInv'
<1>1. PipelineTypes /\ pc[t] = "post" /\ lists' = lists
  BY DEF RowInv, Post, PostRaises
<1>2. table \in Seq(Nat) /\ body[t] \in Seq(Nat) /\ table \o body[t] \in Seq(Nat)
  BY <1>1 DEF PipelineTypes
<1>3. table' = table \/ table' = table \o body[t]
  BY DEF Post, PostRaises
<1>4. table' \in Seq(Nat)
  BY <1>2, <1>3
<1>5. CASE Post(t)
  <2>1. pc' = [pc EXCEPT ![t] = "count"] /\ UNCHANGED <<event, ref, body>>
    BY <1>5 DEF Post, Goto
  <2>2. pc'[t] = "count" /\ \A u \in Threads \ {t} : pc'[u] = pc[u]
    BY <1>1, <2>1 DEF PipelineTypes
  <2>3. PipelineTypes'
    BY <1>1, <1>4, <2>1, <2>2 DEF PipelineTypes, Places
  <2>4. CASE table' = table
    BY <1>1, <2>1, <2>2, <2>3, <2>4, OwnStep DEF Pending, Sending
  <2>5. CASE table' = table \o body[t]
    BY <1>1, <2>1, <2>2, <2>3, <2>5, PostKeeps
  <2> QED
    BY <1>3, <2>4, <2>5
<1>6. CASE PostRaises(t)
  <2>1. pc' = [pc EXCEPT ![t] = "idle"] /\ Forget(t)
    BY <1>6 DEF PostRaises, Goto
  <2>2. /\ pc'[t] = "idle"
        /\ \A u \in Threads \ {t} :
             pc'[u] = pc[u] /\ event'[u] = event[u] /\ ref'[u] = ref[u] /\ body'[u] = body[u]
    BY <1>1, <2>1 DEF PipelineTypes, Forget
  <2>3. PipelineTypes'
    BY <1>1, <1>4, <2>1, <2>2 DEF PipelineTypes, Places, Forget
  <2>4. CASE table' = table
    BY <1>1, <2>2, <2>3, <2>4, OwnStep DEF Pending, Sending
  <2>5. CASE table' = table \o body[t]
    BY <1>1, <2>2, <2>3, <2>5, PostKeeps
  <2> QED
    BY <1>3, <2>4, <2>5
<1> QED
  BY <1>5, <1>6

LEMMA PipelineKeeps ==
  ASSUME RowInv, NEW t \in Threads, PipelineStep(t), UNCHANGED <<credited, clock>>
  PROVE  RowInv'
<1>1. PipelineTypes
  BY DEF RowInv
<1>2. CASE Produce(t)
  <2>1. /\ pc[t] = "produce" /\ pc' = [pc EXCEPT ![t] = "lookup"]
        /\ UNCHANGED <<lists, table, event, ref, body>>
    BY <1>2 DEF Produce, Goto, pipelineLocals
  <2>2. pc'[t] = "lookup" /\ \A u \in Threads \ {t} : pc'[u] = pc[u]
    BY <1>1, <2>1 DEF PipelineTypes
  <2>3. PipelineTypes'
    BY <1>1, <2>1, <2>2 DEF PipelineTypes, Places
  <2> QED
    BY <2>1, <2>2, <2>3, OwnStep DEF Pending, Sending
<1>3. CASE Lookup(t)
  <2>1. /\ pc[t] = "lookup" /\ pc' = [pc EXCEPT ![t] = "append"]
        /\ ref' = [ref EXCEPT ![t] = Len(lists)]
        /\ UNCHANGED <<lists, table, event, body>>
    BY <1>3 DEF Lookup, Goto
  <2>2. /\ pc'[t] = "append" /\ ref'[t] = Len(lists)
        /\ \A u \in Threads \ {t} : pc'[u] = pc[u] /\ ref'[u] = ref[u]
    BY <1>1, <2>1 DEF PipelineTypes
  <2>3. Len(lists) \in DOMAIN lists /\ Len(lists) \in Nat
    BY <1>1 DEF PipelineTypes
  <2>4. pc' \in [Threads -> Places] /\ ref' \in [Threads -> Nat]
    BY <1>1, <2>1, <2>3 DEF PipelineTypes, Places
  <2>5. \A u \in Threads : pc'[u] \in {"append", "render", "post"} => ref'[u] \in DOMAIN lists
    BY <1>1, <2>2, <2>3 DEF PipelineTypes
  <2>6. PipelineTypes'
    BY <1>1, <2>1, <2>4, <2>5 DEF PipelineTypes
  <2> QED
    BY <2>1, <2>2, <2>6, OwnStep DEF Pending, Sending
<1>4. CASE AppendRow(t)
  BY <1>4, AppendKeeps
<1>5. CASE CheckFull(t)
  <2>1. CASE Goto(t, "flush") /\ UNCHANGED pipelineLocals
    <3>1. "flush" \in Places \ (Pending \cup Sending)
      BY DEF Places, Pending, Sending
    <3> QED
      BY <1>5, <2>1, <3>1, GoesOn DEF CheckFull, Goto, pipelineLocals
  <2>2. CASE Goto(t, "save") /\ Forget(t)
    BY <1>5, <2>2, Leaves DEF CheckFull, Goto
  <2> QED
    BY <1>5, <2>1, <2>2 DEF CheckFull
<1>6. CASE Flush(t)
  <2>1. CASE Goto(t, "save") /\ Forget(t) /\ UNCHANGED lists
    BY <1>6, <2>1, Leaves DEF Flush, Goto
  <2>2. CASE /\ ref' = [ref EXCEPT ![t] = Len(lists)]
             /\ lists' = Append(lists, <<>>)
             /\ Goto(t, "render")
             /\ UNCHANGED <<event, body, ok, tmp>>
    BY <1>6, <2>2, TakeKeeps DEF Flush, Goto
  <2> QED
    BY <1>6, <2>1, <2>2 DEF Flush
<1>7. CASE Render(t)
  BY <1>7, RenderKeeps
<1>8. CASE Post(t) \/ PostRaises(t)
  BY <1>8, PostStepKeeps
<1>9. CASE CountRead(t)
  <2>1. "counted" \in Places \ (Pending \cup Sending)
    BY DEF Places, Pending, Sending
  <2> QED
    BY <1>9, <2>1, GoesOn DEF CountRead, Goto
<1>10. CASE CountWrite(t)
  BY <1>10, Leaves DEF CountWrite, Goto
<1> QED
  BY <1>2, <1>3, <1>4, <1>5, <1>6, <1>7, <1>8, <1>9, <1>10 DEF PipelineStep

LEMMA RowKept ==
  ASSUME RowInv, [Next]_vars
  PROVE  RowInv'
<1>1. ASSUME NEW t \in Threads, Record(t)
      PROVE  RowInv'
  BY <1>1, RecordKeeps
<1>2. ASSUME NEW t \in Threads, Publish(t)
      PROVE  RowInv'
  BY <1>2, PipelineKeeps DEF Publish, snapshotVars
<1>3. ASSUME NEW t \in Threads, Save(t)
      PROVE  RowInv'
  <2>1. \E where \in {"stamp", "idle", "successes", "failures", "set"} :
          pc' = [pc EXCEPT ![t] = where]
    BY <1>3 DEF Save, SnapshotStep, Check, Stamp, CopySuccesses, CopyFailures, Set, Goto
  <2>2. UNCHANGED <<lists, table, credited, clock, event, ref, body>>
    BY <1>3 DEF Save, SnapshotStep, Check, Stamp, CopySuccesses, CopyFailures, Set,
                pipelineVars, pipelineLocals
  <2>3. {"stamp", "idle", "successes", "failures", "set"} \subseteq Places \ (Pending \cup Sending)
    BY DEF Places, Pending, Sending
  <2> QED
    BY <2>1, <2>2, <2>3, GoesOn
<1>4. ASSUME NEW t \in Threads, Shutdown(t)
      PROVE  RowInv'
  <2>1. "flush" \in Places \ (Pending \cup Sending)
    BY DEF Places, Pending, Sending
  <2> QED
    BY <1>4, <2>1, GoesOn DEF Shutdown, Goto, pipelineVars, pipelineLocals
<1>5. CASE Restart \/ Crash
  <2>1. \E counts : Start(counts)
    BY <1>5 DEF Restart, Crash
  <2> QED
    BY <2>1, StartKeeps
<1>6. CASE UNCHANGED <<pc, event, ref, body, lists, table, credited>> /\ clock' \in Int
  BY <1>6 DEF RowInv, PipelineTypes, PendingFresh, ListsApart, TableKnown, NoRowTwice,
              SendersApart, SentIsSpent, Rendered, In, Sent
<1>7. RowInv => clock \in Int
  BY DEF RowInv, PipelineTypes
<1>8. CASE Tick
  BY <1>6, <1>7, <1>8 DEF Tick, Second, pipelineVars, pipelineLocals
<1>9. CASE Peer \/ UNCHANGED vars
  BY <1>6, <1>7, <1>9 DEF Peer, PeerSaves, vars, snapshotVars, pipelineVars, pipelineLocals
<1> QED
  BY <1>1, <1>2, <1>3, <1>4, <1>5, <1>8, <1>9 DEF Next

LEMMA InitiallyRows == Init => RowInv
<1> SUFFICES ASSUME Init PROVE RowInv
  OBVIOUS
<1>1. /\ pc = [t \in Threads |-> "idle"] /\ event = [t \in Threads |-> 0]
      /\ ref = [t \in Threads |-> 0] /\ body = [t \in Threads |-> <<>>]
      /\ lists = << <<>> >> /\ table = <<>> /\ credited = <<>> /\ clock = 0
  BY DEF Init, PipelineInit, SnapshotInit
<1>2. PipelineTypes
  BY <1>1 DEF PipelineTypes, Places
<1>3. \A t \in Threads : pc[t] = "idle"
  BY <1>1
<1>4. lists[1] = <<>> /\ DOMAIN lists = {1} /\ DOMAIN table = {}
  BY <1>1
<1>5. ListsApart /\ SentIsSpent /\ TableKnown /\ NoRowTwice
  BY <1>4 DEF ListsApart, SentIsSpent, In, TableKnown, NoRowTwice
<1>6. PendingFresh /\ SendersApart /\ Rendered
  BY <1>3 DEF PendingFresh, SendersApart, Rendered, Pending, Sending
<1> QED
  BY <1>2, <1>5, <1>6 DEF RowInv

\* Whoever fills the buffer checks it afterwards, and whoever flushes empties it.
LEMMA FullSeenKept ==
  ASSUME PipelineTypes, FullIsSeen, [Next]_vars
  PROVE  FullIsSeen'
<1>1. BatchSize \in Nat \ {0} /\ lists \in Seq(Seq(Nat)) /\ lists # <<>>
  BY PipelineAssumption DEF PipelineTypes
<1>2. ASSUME NEW t \in Threads, pc[t] \notin {"full", "flush"}, UNCHANGED lists,
             \A u \in Threads \ {t} : pc'[u] = pc[u]
      PROVE  FullIsSeen'
  BY <1>2 DEF FullIsSeen, Buffer
<1>3. ASSUME NEW t \in Threads, pc'[t] \in {"full", "flush"}
      PROVE  FullIsSeen'
  BY <1>3 DEF FullIsSeen
<1>4. ASSUME Buffer' = <<>>
      PROVE  FullIsSeen'
  BY <1>1, <1>4 DEF FullIsSeen
<1>5. ASSUME NEW t \in Threads, Publish(t)
      PROVE  FullIsSeen'
  <2>1. \A u \in Threads \ {t} : pc'[u] = pc[u]
    BY <1>5 DEF PipelineTypes, Publish, PipelineStep, Produce, Lookup, AppendRow, CheckFull, Flush,
                Render, Post, PostRaises, CountRead, CountWrite, Goto
  <2>2. CASE AppendRow(t)
    BY <1>3, <2>2 DEF PipelineTypes, AppendRow, Goto
  <2>3. CASE CheckFull(t)
    <3>1. CASE Full
      BY <1>3, <2>3, <3>1 DEF PipelineTypes, CheckFull, Goto
    <3>2. CASE ~Full
      BY <2>3, <3>2 DEF CheckFull, Full, FullIsSeen, Buffer
    <3> QED
      BY <3>1, <3>2
  <2>4. CASE Flush(t)
    <3>1. CASE Buffer = <<>>
      BY <1>4, <2>4, <3>1 DEF Flush, Buffer
    <3>2. CASE lists' = Append(lists, <<>>)
      <4>1. <<>> \in Seq(Nat)
        OBVIOUS
      <4>2. lists'[Len(lists')] = <<>>
        BY <1>1, <3>2, <4>1, Extended
      <4> QED
        BY <1>4, <4>2 DEF Buffer
    <3> QED
      BY <2>4, <3>1, <3>2 DEF Flush
  <2>5. CASE Produce(t) \/ Lookup(t) \/ Render(t) \/ Post(t) \/ PostRaises(t)
               \/ CountRead(t) \/ CountWrite(t)
    BY <1>2, <2>1, <2>5 DEF Produce, Lookup, Render, Post, PostRaises, CountRead, CountWrite
  <2> QED
    BY <1>5, <2>2, <2>3, <2>4, <2>5 DEF Publish, PipelineStep
<1>6. ASSUME NEW t \in Threads, Record(t) \/ Save(t)
      PROVE  FullIsSeen'
  <2>1. UNCHANGED lists /\ pc[t] \notin {"full", "flush"} /\ \A u \in Threads \ {t} : pc'[u] = pc[u]
    BY <1>6 DEF PipelineTypes, Record, Save, SnapshotStep, Check, Stamp, CopySuccesses,
                CopyFailures, Set, Goto, pipelineVars
  <2> QED
    BY <1>2, <2>1
<1>7. ASSUME NEW t \in Threads, Shutdown(t)
      PROVE  FullIsSeen'
  BY <1>3, <1>7 DEF PipelineTypes, Shutdown, Goto
<1>8. CASE Restart \/ Crash
  <2>1. lists' = << <<>> >>
    BY <1>8 DEF Restart, Crash, Start, Forgotten
  <2> QED
    BY <1>4, <2>1 DEF Buffer
<1>9. CASE UNCHANGED <<pc, lists>>
  BY <1>9 DEF FullIsSeen, Buffer
<1>10. CASE Tick \/ Peer \/ UNCHANGED vars
  BY <1>9, <1>10 DEF Tick, Second, Peer, PeerSaves, vars, pipelineVars
<1> QED
  BY <1>5, <1>6, <1>7, <1>8, <1>10 DEF Next

-------------------------------------------------------------------------------
(* What a server that stops has done                                         *)

LEMMA RecordStops ==
  ASSUME PipelineTypes, StopInv, NEW t \in Threads, Record(t)
  PROVE  StopInv'
<1>1. SnapshotTypes /\ Absorbed
  BY DEF StopInv
<1> DEFINE o == Len(credited) + 1
<1>2. /\ ~stopping /\ pc' = [pc EXCEPT ![t] = "produce"]
      /\ credited' = Append(credited, clock)
      /\ posterior' = [ successes |-> posterior.successes \cup {o},
                        failures  |-> posterior.failures \cup {o} ]
      /\ UNCHANGED <<faults, clock, key, stopping, now, payload>>
  BY DEF Record, Goto, snapshotLocals
<1>3. o \in Nat /\ DOMAIN credited' = DOMAIN credited \cup {o}
  <2>1. credited \in Seq(Int) /\ clock \in Int
    BY DEF PipelineTypes
  <2> QED
    BY <1>2, <2>1, Extended
<1> HIDE DEF o
<1>4. posterior'.successes = posterior.successes \cup {o} /\ posterior'.failures = posterior.failures \cup {o}
  BY <1>2
<1>5. posterior' \in Counts
  BY <1>1, <1>2, <1>3 DEF SnapshotTypes, Counts
<1>6. \A u \in Threads : pc'[u] \in {"failures", "set"} => pc[u] = pc'[u]
  BY <1>2 DEF PipelineTypes
<1>7. SnapshotTypes'
  BY <1>1, <1>2, <1>5, <1>6 DEF SnapshotTypes
<1>8. Absorbed'
  BY <1>1, <1>2, <1>3, <1>4 DEF Absorbed
<1>9. OneStops' /\ Finishing' /\ CleanStopKeepsAll'
  BY <1>1, <1>2 DEF OneStops, Finishing, CleanStopKeepsAll, SnapshotTypes
<1> QED
  BY <1>7, <1>8, <1>9 DEF StopInv

\* A step of the pipeline, of the thread that flushes when the server stops.
LEMMA PublishStops ==
  ASSUME PipelineTypes, StopInv, NEW t \in Threads, Publish(t)
  PROVE  StopInv'
<1>1. SnapshotTypes /\ Absorbed /\ OneStops /\ Finishing /\ CleanStopKeepsAll
  BY DEF StopInv
<1>2. UNCHANGED <<clock, posterior, key, stopping, now, payload, credited>>
  BY DEF Publish, snapshotVars, snapshotLocals
<1>3. faults' \in Nat /\ (faults' = 0 => faults = 0)
  BY <1>1 DEF SnapshotTypes, Publish, PipelineStep, Produce, Lookup, AppendRow, CheckFull, Flush, Render,
              Post, PostRaises, CountRead, CountWrite, Fault
<1>4. PICK where :
        /\ pc' = [pc EXCEPT ![t] = where]
        /\ where \in Places \ {"stamp", "successes", "failures", "set"}
        /\ pc[t] \in StopPlaces => where \in StopPlaces \cup {"idle"}
        /\ pc[t] \in StopPlaces \ {"flush"} => where \in StopPlaces \ {"flush"} \/ where = "idle"
        /\ where = "idle" => faults' # 0
  <2> DEFINE Goes(where) ==
        /\ pc' = [pc EXCEPT ![t] = where]
        /\ where \in Places \ {"stamp", "successes", "failures", "set"}
        /\ pc[t] \in StopPlaces => where \in StopPlaces \cup {"idle"}
        /\ pc[t] \in StopPlaces \ {"flush"} => where \in StopPlaces \ {"flush"} \/ where = "idle"
        /\ where = "idle" => faults' # 0
  <2>1. CASE Produce(t)
    <3>1. Goes("lookup")
      BY <2>1 DEF Produce, Goto, Places, StopPlaces
    <3> QED
      BY <3>1
  <2>2. CASE Lookup(t)
    <3>1. Goes("append")
      BY <2>2 DEF Lookup, Goto, Places, StopPlaces
    <3> QED
      BY <3>1
  <2>3. CASE AppendRow(t)
    <3>1. Goes("full")
      BY <2>3 DEF AppendRow, Goto, Places, StopPlaces
    <3> QED
      BY <3>1
  <2>4. CASE CheckFull(t)
    <3>1. Goes("flush") \/ Goes("save")
      BY <2>4 DEF CheckFull, Goto, Places, StopPlaces
    <3> QED
      BY <3>1
  <2>5. CASE Flush(t)
    <3>1. Goes("save") \/ Goes("render")
      BY <2>5 DEF Flush, Goto, Places, StopPlaces
    <3> QED
      BY <3>1
  <2>6. CASE Render(t)
    <3>1. Goes("post")
      BY <2>6 DEF Render, Goto, Places, StopPlaces
    <3> QED
      BY <3>1
  <2>7. CASE Post(t)
    <3>1. Goes("count")
      BY <2>7 DEF Post, Goto, Places, StopPlaces
    <3> QED
      BY <3>1
  <2>8. CASE PostRaises(t)
    <3>1. faults' # 0
      BY <1>1, <2>8 DEF SnapshotTypes, PostRaises, Fault
    <3>2. Goes("idle")
      BY <2>8, <3>1 DEF PostRaises, Goto, Places, StopPlaces
    <3> QED
      BY <3>2
  <2>9. CASE CountRead(t)
    <3>1. Goes("counted")
      BY <2>9 DEF CountRead, Goto, Places, StopPlaces
    <3> QED
      BY <3>1
  <2>10. CASE CountWrite(t)
    <3>1. Goes("save")
      BY <2>10 DEF CountWrite, Goto, Places, StopPlaces
    <3> QED
      BY <3>1
  <2> QED
    BY <2>1, <2>2, <2>3, <2>4, <2>5, <2>6, <2>7, <2>8, <2>9, <2>10 DEF Publish, PipelineStep
<1>5. /\ pc'[t] = where /\ \A u \in Threads \ {t} : pc'[u] = pc[u]
      /\ pc[t] # "idle"
  BY <1>4 DEF PipelineTypes, Publish, PipelineStep, Produce, Lookup, AppendRow, CheckFull, Flush,
              Render, Post, PostRaises, CountRead, CountWrite
<1>6. SnapshotTypes'
  BY <1>1, <1>2, <1>3, <1>4, <1>5 DEF SnapshotTypes
<1>7. Absorbed'
  BY <1>1, <1>2, <1>3 DEF Absorbed
<1>8. OneStops'
  BY <1>1, <1>2, <1>4, <1>5 DEF OneStops
<1>9. ASSUME stopping, faults' = 0, pc[t] = "flush"
      PROVE  Buffer' = <<>>
  <2>1. Flush(t)
    BY <1>9 DEF Publish, PipelineStep, Produce, Lookup, AppendRow, CheckFull, Render, Post,
                PostRaises, CountRead, CountWrite
  <2>2. CASE Buffer = <<>> /\ UNCHANGED lists
    BY <2>2 DEF Buffer
  <2>3. CASE lists' = Append(lists, <<>>)
    <3>1. lists \in Seq(Seq(Nat)) /\ <<>> \in Seq(Nat)
      BY DEF PipelineTypes
    <3>2. lists'[Len(lists')] = <<>>
      BY <2>3, <3>1, Extended
    <3> QED
      BY <3>2 DEF Buffer
  <2> QED
    BY <2>1, <2>2, <2>3 DEF Flush
<1>10. ASSUME stopping, pc[t] # "flush"
       PROVE  UNCHANGED lists /\ pc[t] \in StopPlaces
  BY <1>1, <1>5, <1>10 DEF OneStops, StopPlaces, Publish, PipelineStep, Produce, Lookup, AppendRow,
              CheckFull, Flush, Render, Post, PostRaises, CountRead, CountWrite
<1>11. Finishing'
  <2> SUFFICES ASSUME faults' = 0, stopping, NEW u \in Threads
               PROVE  /\ pc'[u] \in StopPlaces \ {"flush"} => Buffer' = <<>>
                      /\ pc'[u] \in {"failures", "set"} => payload[u].successes = DOMAIN credited
                      /\ pc'[u] = "set" => payload[u].failures = DOMAIN credited
    BY <1>2 DEF Finishing
  <2>1. faults = 0
    BY <1>3
  <2>2. CASE u = t
    BY <1>1, <1>4, <1>5, <1>9, <1>10, <2>1, <2>2 DEF Finishing, Buffer
  <2>3. CASE u # t
    <3>1. pc'[u] = "idle"
      BY <1>1, <1>5, <2>3 DEF OneStops
    <3> QED
      BY <3>1 DEF StopPlaces
  <2> QED
    BY <2>2, <2>3
<1>12. CleanStopKeepsAll'
  BY <1>4, <1>5 DEF CleanStopKeepsAll, AllIdle
<1> QED
  BY <1>6, <1>7, <1>8, <1>11, <1>12 DEF StopInv

\* A step of a save; that of a server that stops copies every outcome.
LEMMA SaveStops ==
  ASSUME PipelineTypes, StopInv, NEW t \in Threads, Save(t)
  PROVE  StopInv'
<1>1. SnapshotTypes /\ Absorbed /\ OneStops /\ Finishing /\ CleanStopKeepsAll
  BY DEF StopInv
<1>2. UNCHANGED <<clock, posterior, stopping, credited, lists>>
  BY DEF Save, SnapshotStep, Check, Stamp, CopySuccesses, CopyFailures, Set, snapshotLocals, pipelineVars
<1>3. faults' \in Nat /\ (faults' = 0 => faults = 0)
  BY <1>1 DEF SnapshotTypes, Save, SnapshotStep, Check, Stamp, CopySuccesses, CopyFailures, Set, Fault
<1>4. PICK where :
        /\ pc' = [pc EXCEPT ![t] = where]
        /\ where \in {"idle", "stamp", "successes", "failures", "set"}
        /\ pc[t] \in {"save", "stamp", "successes", "failures", "set"}
        /\ where = "idle" => pc[t] = "set" \/ ~stopping
        /\ where = "failures" => pc[t] = "successes"
        /\ where = "set" => pc[t] = "failures"
  BY DEF Save, SnapshotStep, Check, Stamp, CopySuccesses, CopyFailures, Set, Goto, Due
<1>5. pc'[t] = where /\ \A u \in Threads \ {t} : pc'[u] = pc[u]
  BY <1>4 DEF PipelineTypes
<1>6. /\ now' \in [Threads -> Int]
      /\ payload' = [u \in Threads |-> payload'[u]]
      /\ \A u \in Threads \ {t} : payload'[u] = payload[u]
  <2>1. now' \in {now, [now EXCEPT ![t] = clock], [now EXCEPT ![t] = 0]}
    BY DEF Save, SnapshotStep, Check, Stamp, CopySuccesses, CopyFailures, Set, snapshotLocals
  <2>2. clock \in Int /\ now \in [Threads -> Int]
    BY <1>1 DEF PipelineTypes, SnapshotTypes
  <2>3. payload' = payload \/ \E v : payload' = [payload EXCEPT ![t] = v]
    BY DEF Save, SnapshotStep, Check, Stamp, CopySuccesses, CopyFailures, Set, snapshotLocals
  <2>4. /\ payload' = [u \in Threads |-> payload'[u]]
        /\ \A u \in Threads \ {t} : payload'[u] = payload[u]
    BY <1>1, <2>3 DEF SnapshotTypes
  <2> QED
    BY <2>1, <2>2, <2>4
<1>7. CASE where \in {"idle", "stamp", "successes"}
  <2>1. key' = key \/ (pc[t] = "set" /\ key' = payload[t])
    BY <1>4, <1>5, <1>7 DEF Save, SnapshotStep, Check, Stamp, CopySuccesses, CopyFailures, Set
  <2>2. key' \in Snapshots \cup {Nothing}
    BY <1>1, <2>1 DEF SnapshotTypes
  <2>3. SnapshotTypes'
    BY <1>1, <1>2, <1>3, <1>5, <1>6, <1>7, <2>2 DEF SnapshotTypes
  <2>4. Absorbed' /\ OneStops'
    BY <1>1, <1>2, <1>3, <1>4, <1>5 DEF Absorbed, OneStops, StopPlaces
  <2>5. Finishing'
    BY <1>1, <1>2, <1>3, <1>4, <1>5, <1>6, <1>7 DEF Finishing, Buffer, StopPlaces
  <2>6. CleanStopKeepsAll'
    <3> SUFFICES ASSUME faults' = 0, stopping, AllIdle'
                 PROVE  /\ key' # Nothing /\ Buffer = <<>>
                        /\ key'.successes = DOMAIN credited /\ key'.failures = DOMAIN credited
      BY <1>2 DEF CleanStopKeepsAll, Buffer
    <3>1. where = "idle" /\ pc[t] = "set" /\ faults = 0
      BY <1>3, <1>4, <1>5 DEF AllIdle
    <3>2. Set(t)
      BY <3>1 DEF Save, SnapshotStep, Check, Stamp, CopySuccesses, CopyFailures
    <3>3. key' = payload[t]
      <4>1. faults + 1 # 0
        BY <1>1 DEF SnapshotTypes
      <4> QED
        BY <3>2, <4>1 DEF Set, Fault
    <3>4. payload[t] \in Snapshots /\ payload[t] # Nothing
      BY <1>1, <3>1, SnapshotAssumption DEF SnapshotTypes, Snapshots
    <3> QED
      BY <1>1, <3>1, <3>3, <3>4 DEF Finishing, StopPlaces
  <2> QED
    BY <2>3, <2>4, <2>5, <2>6 DEF StopInv
<1>8. CASE where = "failures"
  <2>1. CopySuccesses(t)
    BY <1>4, <1>8 DEF Save, SnapshotStep, Check, Stamp, CopySuccesses, CopyFailures, Set
  <2>2. /\ payload'[t] = [successes |-> posterior.successes, failures |-> {}, at |-> now[t]]
        /\ key' = key
    BY <1>1, <2>1 DEF SnapshotTypes, CopySuccesses
  <2>3. payload'[t] \in Snapshots /\ payload'[t].successes = posterior.successes
    BY <1>1, <2>2 DEF SnapshotTypes, Snapshots, Counts
  <2>4. SnapshotTypes'
    BY <1>1, <1>2, <1>3, <1>5, <1>6, <2>2, <2>3 DEF SnapshotTypes
  <2>5. Absorbed' /\ OneStops'
    BY <1>1, <1>2, <1>3, <1>4, <1>5 DEF Absorbed, OneStops, StopPlaces
  <2>6. Finishing'
    BY <1>1, <1>2, <1>3, <1>4, <1>5, <1>6, <1>8, <2>3 DEF Finishing, Absorbed, Buffer, StopPlaces
  <2>7. CleanStopKeepsAll'
    BY <1>5, <1>8 DEF CleanStopKeepsAll, AllIdle
  <2> QED
    BY <2>4, <2>5, <2>6, <2>7 DEF StopInv
<1>9. CASE where = "set"
  <2>1. CopyFailures(t) /\ payload[t] \in Snapshots
    BY <1>1, <1>4, <1>9 DEF SnapshotTypes, Save, SnapshotStep, Check, Stamp, CopySuccesses, CopyFailures, Set
  <2>2. payload'[t] = [payload[t] EXCEPT !.failures = posterior.failures] /\ key' = key
    BY <1>1, <2>1 DEF SnapshotTypes, CopyFailures
  <2>3. /\ payload'[t] \in Snapshots /\ payload'[t].successes = payload[t].successes
        /\ payload'[t].failures = posterior.failures
    BY <1>1, <2>1, <2>2 DEF SnapshotTypes, Snapshots, Counts
  <2>4. SnapshotTypes'
    BY <1>1, <1>2, <1>3, <1>5, <1>6, <2>2, <2>3 DEF SnapshotTypes
  <2>5. Absorbed' /\ OneStops'
    BY <1>1, <1>2, <1>3, <1>4, <1>5 DEF Absorbed, OneStops, StopPlaces
  <2>6. Finishing'
    BY <1>1, <1>2, <1>3, <1>4, <1>5, <1>6, <1>9, <2>3 DEF Finishing, Absorbed, Buffer, StopPlaces
  <2>7. CleanStopKeepsAll'
    BY <1>5, <1>9 DEF CleanStopKeepsAll, AllIdle
  <2> QED
    BY <2>4, <2>5, <2>6, <2>7 DEF StopInv
<1> QED
  BY <1>4, <1>7, <1>8, <1>9

LEMMA ShutdownStops ==
  ASSUME PipelineTypes, StopInv, NEW t \in Threads, Shutdown(t)
  PROVE  StopInv'
<1>1. SnapshotTypes /\ Absorbed
  BY DEF StopInv
<1>2. /\ AllIdle /\ pc' = [pc EXCEPT ![t] = "flush"]
      /\ UNCHANGED <<faults, lists, clock, posterior, key, now, payload, credited>> /\ stopping'
  BY DEF Shutdown, Goto, pipelineVars, snapshotLocals
<1>3. pc'[t] = "flush" /\ \A u \in Threads \ {t} : pc'[u] = "idle"
  BY <1>2 DEF PipelineTypes, AllIdle
<1>4. stopping' = TRUE
  BY DEF Shutdown
<1>5. SnapshotTypes' /\ Absorbed'
  BY <1>1, <1>2, <1>3, <1>4 DEF SnapshotTypes, Absorbed
<1>6. OneStops' /\ Finishing' /\ CleanStopKeepsAll'
  BY <1>3 DEF OneStops, Finishing, CleanStopKeepsAll, AllIdle, StopPlaces
<1> QED
  BY <1>5, <1>6 DEF StopInv

\* A new process starts from the key: from everything, if it stopped in order.
LEMMA StartStops ==
  ASSUME PipelineTypes, StopInv, Restart \/ Crash
  PROVE  StopInv'
<1>1. SnapshotTypes /\ CleanStopKeepsAll
  BY DEF StopInv
<1>2. Restored \in Counts /\ Cold \in Counts
  BY <1>1 DEF SnapshotTypes, Restored, Cold, Counts, Snapshots
<1>3. PICK counts \in Counts : Start(counts)
  BY <1>2 DEF Restart, Crash
<1>4. /\ ~stopping' /\ stopping' = FALSE /\ posterior' \in Counts
      /\ pc' = [t \in Threads |-> "idle"]
      /\ now' = [t \in Threads |-> 0] /\ payload' = [t \in Threads |-> Nothing]
      /\ UNCHANGED <<clock, key, credited>>
  BY <1>3 DEF Start
<1>5. faults' \in Nat /\ (faults' = 0 => Restart /\ faults = 0)
  BY <1>1 DEF SnapshotTypes, Restart, Crash, Fault
<1>6. SnapshotTypes'
  <2>1. \A t \in Threads : pc'[t] = "idle"
    BY <1>4
  <2>2. payload' = [t \in Threads |-> payload'[t]] /\ now' \in [Threads -> Int]
    BY <1>4
  <2>3. clock' \in Int
    BY <1>4 DEF PipelineTypes
  <2> QED
    BY <1>1, <1>4, <1>5, <2>1, <2>2, <2>3 DEF SnapshotTypes
<1>7. Absorbed'
  <2> SUFFICES ASSUME faults' = 0
               PROVE  posterior'.successes = DOMAIN credited /\ posterior'.failures = DOMAIN credited
    BY <1>4 DEF Absorbed
  <2>1. faults = 0 /\ stopping /\ AllIdle /\ posterior' = Restored
    BY <1>5 DEF Restart, Start
  <2> QED
    BY <1>1, <2>1 DEF CleanStopKeepsAll, Restored
<1>8. OneStops' /\ Finishing' /\ CleanStopKeepsAll'
  BY <1>4 DEF OneStops, Finishing, CleanStopKeepsAll
<1> QED
  BY <1>6, <1>7, <1>8 DEF StopInv

LEMMA StopKept ==
  ASSUME PipelineTypes, StopInv, [Next]_vars
  PROVE  StopInv'
<1>1. SnapshotTypes /\ Absorbed /\ OneStops /\ Finishing /\ CleanStopKeepsAll
  BY DEF StopInv
<1>2. ASSUME UNCHANGED <<faults, pc, lists, posterior, key, stopping, now, payload, credited>>,
             clock' \in Int
      PROVE  StopInv'
  BY <1>1, <1>2 DEF StopInv, SnapshotTypes, Absorbed, OneStops, Finishing, CleanStopKeepsAll, Buffer, AllIdle
<1>3. clock \in Int
  BY DEF PipelineTypes
<1>4. CASE Tick
  BY <1>2, <1>3, <1>4 DEF Tick, Second, pipelineVars, snapshotLocals
<1>5. CASE UNCHANGED vars
  BY <1>2, <1>3, <1>5 DEF vars, pipelineVars, snapshotVars, snapshotLocals
<1>6. CASE Peer
  <2>1. /\ faults' \in Nat /\ faults' # 0
        /\ key' = [successes |-> {}, failures |-> {}, at |-> clock]
        /\ UNCHANGED <<pc, posterior, stopping, now, payload, credited, clock>>
    BY <1>1, <1>6 DEF SnapshotTypes, Peer, PeerSaves, Fault, snapshotLocals
  <2>2. key' \in Snapshots
    BY <1>3, <2>1 DEF Snapshots
  <2> QED
    BY <1>1, <2>1, <2>2 DEF StopInv, SnapshotTypes, Absorbed, OneStops, Finishing, CleanStopKeepsAll
<1> QED
  BY <1>4, <1>5, <1>6, RecordStops, PublishStops, SaveStops, ShutdownStops, StartStops DEF Next

LEMMA InitiallyStop == Init => StopInv
<1> SUFFICES ASSUME Init PROVE StopInv
  OBVIOUS
<1>1. /\ pc = [t \in Threads |-> "idle"] /\ faults = 0 /\ credited = <<>> /\ clock = 0
      /\ posterior = Cold /\ key = Nothing /\ stopping = FALSE
      /\ now = [t \in Threads |-> 0] /\ payload = [t \in Threads |-> Nothing]
  BY DEF Init, SnapshotInit
<1>2. SnapshotTypes
  <2>1. \A t \in Threads : pc[t] = "idle"
    BY <1>1
  <2>2. payload = [t \in Threads |-> payload[t]] /\ now \in [Threads -> Int]
    BY <1>1
  <2>3. posterior \in Counts
    BY <1>1 DEF Cold, Counts
  <2> QED
    BY <1>1, <2>1, <2>2, <2>3 DEF SnapshotTypes
<1>3. Absorbed
  BY <1>1 DEF Absorbed, Cold
<1> QED
  BY <1>1, <1>2, <1>3 DEF StopInv, OneStops, Finishing, CleanStopKeepsAll

-------------------------------------------------------------------------------
(* The snapshot keeps up                                                     *)

\* A thread goes on, in or to no save.
LEMMA Unwritten ==
  ASSUME PipelineTypes, KeepInv, NEW t \in Threads, NEW where,
         pc' = [pc EXCEPT ![t] = where], pc[t] \notin Writing, where \notin Writing,
         UNCHANGED <<clock, lastWrite, key, now, payload, credited>>,
         faults' = 0 => faults = 0 /\ where # "idle"
  PROVE  KeepInv'
<1>1. pc'[t] = where /\ \A u \in Threads \ {t} : pc'[u] = pc[u]
  BY DEF PipelineTypes
<1>2. \A u \in Threads : /\ pc'[u] \in Writing <=> pc[u] \in Writing
                         /\ pc[u] \in Writing => pc'[u] = pc[u]
  BY <1>1
<1>3. ClockInv'
  BY <1>2 DEF KeepInv, ClockInv
<1>4. ASSUME faults' = 0
      PROVE  (CopiedInv /\ KeyInv /\ SpacedInv /\ CoveredInv)'
  <2>1. CopiedInv /\ KeyInv /\ SpacedInv
    BY <1>4 DEF KeepInv
  <2>2. \A u \in Threads : pc'[u] \in {"failures", "set"} => pc'[u] = pc[u]
    BY <1>2 DEF Writing
  <2>3. CopiedInv' /\ KeyInv'
    BY <2>1, <2>2 DEF CopiedInv, KeyInv
  <2>4. \A u \in Threads : pc[u] \in Stamped => pc'[u] \in Stamped
    BY <1>2 DEF Stamped
  <2>5. SpacedInv'
    BY <2>1, <2>4 DEF SpacedInv
  <2>6. ~AllIdle'
    BY <1>1, <1>4 DEF AllIdle
  <2> QED
    BY <2>3, <2>5, <2>6 DEF CoveredInv
<1> QED
  BY <1>3, <1>4 DEF KeepInv

LEMMA RecordKeepsUp ==
  ASSUME PipelineTypes, SnapshotTypes, KeepInv, NEW t \in Threads, Record(t)
  PROVE  KeepInv'
<1>1. /\ pc[t] = "idle" /\ pc' = [pc EXCEPT ![t] = "produce"]
      /\ UNCHANGED <<faults, clock, lastWrite, key, now, payload>>
      /\ credited' = Append(credited, clock)
  BY DEF Record, Goto, snapshotLocals
<1>2. pc'[t] = "produce" /\ \A u \in Threads \ {t} : pc'[u] = pc[u]
  BY <1>1 DEF PipelineTypes
<1>3. \A u \in Threads : pc'[u] \in Writing => pc'[u] = pc[u]
  BY <1>2 DEF Writing
<1>4. \A o \in DOMAIN credited' :
        \/ o \in DOMAIN credited /\ credited'[o] = credited[o]
        \/ credited'[o] = clock
  <2>1. credited \in Seq(Int) /\ clock \in Int
    BY DEF PipelineTypes
  <2>2. /\ DOMAIN credited' = DOMAIN credited \cup {Len(credited')}
        /\ credited'[Len(credited')] = clock
        /\ \A o \in DOMAIN credited : credited'[o] = credited[o]
    BY <1>1, <2>1, Extended, SMTT(30)
  <2> QED
    BY <2>2
<1>5. clock \in Nat /\ lastWrite \in Int /\ now \in [Threads -> Int]
  BY DEF KeepInv, ClockInv, SnapshotTypes
<1>6. ClockInv'
  BY <1>1, <1>3, <1>4, <1>5 DEF KeepInv, ClockInv
<1>7. ASSUME faults' = 0
      PROVE  (CopiedInv /\ KeyInv /\ SpacedInv /\ CoveredInv)'
  <2>1. CopiedInv /\ KeyInv /\ SpacedInv /\ ClockInv
    BY <1>1, <1>7 DEF KeepInv
  <2>2. CopiedInv'
    <3> SUFFICES ASSUME NEW u \in Threads, pc'[u] \in {"failures", "set"}
                 PROVE  /\ payload'[u].at = now'[u]
                        /\ \A o \in DOMAIN credited' : credited'[o] < now'[u] =>
                             /\ o \in payload'[u].successes
                             /\ pc'[u] = "set" => o \in payload'[u].failures
      BY DEF CopiedInv
    <3>1. pc[u] = pc'[u] /\ pc[u] \in Writing /\ pc[u] \in {"failures", "set"}
      BY <1>3 DEF Writing
    <3>2. now[u] <= clock /\ now[u] \in Int
      BY <1>5, <2>1, <3>1 DEF ClockInv
    <3>3. ~(clock < now[u])
      BY <1>5, <3>2
    <3> QED
      BY <1>1, <1>4, <2>1, <3>1, <3>3 DEF CopiedInv
  <2>3. KeyInv'
    <3> SUFFICES ASSUME key # Nothing
                 PROVE  /\ key.at <= clock
                        /\ \A o \in DOMAIN credited' :
                             credited'[o] < key.at => o \in key.successes /\ o \in key.failures
      BY <1>1 DEF KeyInv
    <3>1. key.at <= clock /\ key.at \in Int
      BY <2>1 DEF KeyInv, SnapshotTypes, Snapshots
    <3>2. ~(clock < key.at)
      BY <1>5, <3>1
    <3> QED
      BY <1>4, <2>1, <3>1, <3>2 DEF KeyInv
  <2>4. SpacedInv'
    <3>1. \A u \in Threads : pc[u] \in Stamped => pc'[u] \in Stamped
      BY <1>1, <1>2 DEF Stamped, Writing
    <3> QED
      BY <1>1, <2>1, <3>1 DEF SpacedInv
  <2>5. ~AllIdle'
    BY <1>2 DEF AllIdle
  <2> QED
    BY <2>2, <2>3, <2>4, <2>5 DEF CoveredInv
<1> QED
  BY <1>6, <1>7 DEF KeepInv

LEMMA PublishKeepsUp ==
  ASSUME PipelineTypes, SnapshotTypes, KeepInv, NEW t \in Threads, Publish(t)
  PROVE  KeepInv'
<1>1. UNCHANGED <<clock, lastWrite, key, now, payload, credited>>
  BY DEF Publish, snapshotVars, snapshotLocals
<1>2. PICK where : /\ pc' = [pc EXCEPT ![t] = where]
                   /\ pc[t] \notin Writing /\ where \notin Writing
                   /\ where = "idle" => PostRaises(t)
  BY DEF Publish, PipelineStep, Produce, Lookup, AppendRow, CheckFull, Flush, Render, Post,
         PostRaises, CountRead, CountWrite, Goto, Writing
<1>3. faults' = 0 => faults = 0
  BY DEF Publish, PipelineStep, Produce, Lookup, AppendRow, CheckFull, Flush, Render, Post,
         PostRaises, CountRead, CountWrite, Fault, SnapshotTypes
<1>4. PostRaises(t) => faults' # 0
  BY DEF PostRaises, Fault, SnapshotTypes
<1> QED
  BY <1>1, <1>2, <1>3, <1>4, Unwritten

\* A handler that finds no save due is behind the key by less than an interval and
\* a save; one that saves has what was absorbed before it began.
LEMMA SaveKeepsUp ==
  ASSUME PipelineTypes, SnapshotTypes, Absorbed, KeepInv, NEW t \in Threads, Save(t)
  PROVE  KeepInv'
<1>0. /\ clock \in Nat /\ lastWrite \in Int /\ lastWrite <= clock
      /\ now \in [Threads -> Int] /\ faults \in Nat
      /\ Interval \in Nat \ {0} /\ SaveSeconds \in Nat
      /\ DOMAIN pc = Threads /\ payload = [u \in Threads |-> payload[u]]
      /\ \A o \in DOMAIN credited : credited[o] \in Int /\ credited[o] <= clock
  <2>1. clock \in Nat /\ lastWrite \in Int /\ lastWrite <= clock
    BY DEF KeepInv, ClockInv
  <2>2. \A o \in DOMAIN credited : credited[o] \in Int /\ credited[o] <= clock
    BY DEF KeepInv, ClockInv, PipelineTypes
  <2> QED
    BY <2>1, <2>2, SnapshotAssumption DEF SnapshotTypes, PipelineTypes
<1>1. ClockInv /\ UNCHANGED <<clock, posterior, credited>>
  BY DEF KeepInv, Save, SnapshotStep, Check, Stamp, CopySuccesses, CopyFailures, Set, snapshotLocals
<1>2. faults' = 0 => faults = 0
  BY <1>0 DEF Save, SnapshotStep, Check, Stamp, CopySuccesses, CopyFailures, Set, Fault
<1>3. CASE Check(t)
  <2>1. pc[t] = "save" /\ UNCHANGED <<lastWrite, payload, key, faults>>
    BY <1>3 DEF Check
  <2>2. CASE Due
    <3>1. /\ pc' = [pc EXCEPT ![t] = "stamp"] /\ now' = [now EXCEPT ![t] = clock]
      BY <1>3, <2>2 DEF Check, Goto
    <3>2. /\ pc'[t] = "stamp" /\ now'[t] = clock
          /\ \A u \in Threads \ {t} : pc'[u] = pc[u] /\ now'[u] = now[u]
      BY <1>0, <3>1
    <3>3. ClockInv'
      BY <1>0, <1>1, <2>1, <3>2 DEF ClockInv
    <3>4. ASSUME faults' = 0
          PROVE  (CopiedInv /\ KeyInv /\ SpacedInv /\ CoveredInv)'
      <4>1. CopiedInv /\ KeyInv /\ SpacedInv
        BY <2>1, <3>4 DEF KeepInv
      <4>2. \A u \in Threads : pc'[u] \in {"failures", "set"} => u # t
        BY <3>2
      <4>3. CopiedInv'
        BY <1>1, <2>1, <3>2, <4>1, <4>2 DEF CopiedInv
      <4>4. KeyInv'
        BY <1>1, <2>1, <4>1 DEF KeyInv
      <4>5. \A u \in Threads : pc[u] \in Stamped => pc'[u] \in Stamped
        BY <2>1, <3>2 DEF Stamped, Writing
      <4>6. SpacedInv'
        BY <1>1, <2>1, <4>1, <4>5 DEF SpacedInv
      <4>7. ~AllIdle'
        BY <3>2 DEF AllIdle
      <4> QED
        BY <4>3, <4>4, <4>6, <4>7 DEF CoveredInv
    <3> QED
      BY <3>3, <3>4 DEF KeepInv
  <2>3. CASE ~Due
    <3>1. pc' = [pc EXCEPT ![t] = "idle"] /\ now' = now
      BY <1>3, <2>3 DEF Check, Goto
    <3>2. pc'[t] = "idle" /\ \A u \in Threads \ {t} : pc'[u] = pc[u]
      BY <1>0, <3>1
    <3>3. ClockInv'
      BY <1>1, <2>1, <3>1, <3>2 DEF ClockInv, Writing
    <3>4. ASSUME faults' = 0
          PROVE  (CopiedInv /\ KeyInv /\ SpacedInv /\ CoveredInv)'
      <4>1. CopiedInv /\ KeyInv /\ SpacedInv
        BY <2>1, <3>4 DEF KeepInv
      <4>2. \A u \in Threads : pc'[u] \in {"failures", "set"} => u # t
        BY <3>2
      <4>3. CopiedInv'
        BY <1>1, <2>1, <3>1, <3>2, <4>1, <4>2 DEF CopiedInv
      <4>4. KeyInv'
        BY <1>1, <2>1, <4>1 DEF KeyInv
      <4>5. \A u \in Threads : pc[u] \in Stamped => pc'[u] \in Stamped
        BY <2>1, <3>2 DEF Stamped, Writing
      <4>6. SpacedInv'
        BY <1>1, <2>1, <4>1, <4>5 DEF SpacedInv
      <4>7. CoveredInv'
        <5> SUFFICES ASSUME AllIdle', NEW o \in DOMAIN credited
                     PROVE  key # Nothing /\ credited[o] < key.at + Interval + SaveSeconds
          BY <1>1, <2>1 DEF CoveredInv, Recent
        <5>1. clock - lastWrite < Interval
          BY <1>0, <2>3 DEF Due
        <5>2. \A u \in Threads : pc[u] \notin Stamped
          BY <2>1, <3>2 DEF AllIdle, Stamped, Writing
        <5>3. key # Nothing /\ lastWrite <= key.at + SaveSeconds
          BY <4>1, <5>1, <5>2 DEF SpacedInv
        <5>4. key.at \in Int
          BY <5>3 DEF SnapshotTypes, Snapshots
        <5>5. credited[o] \in Int /\ credited[o] <= clock
          BY <1>0
        <5>6. credited[o] < key.at + Interval + SaveSeconds
          BY <1>0, <5>1, <5>3, <5>4, <5>5
        <5> QED
          BY <5>3, <5>6
      <4> QED
        BY <4>3, <4>4, <4>6, <4>7
    <3> QED
      BY <3>3, <3>4 DEF KeepInv
  <2> QED
    BY <2>2, <2>3
<1>4. CASE Stamp(t)
  <2>1. /\ pc[t] = "stamp" /\ pc' = [pc EXCEPT ![t] = "successes"] /\ lastWrite' = now[t]
        /\ UNCHANGED <<now, payload, key, faults>>
    BY <1>4 DEF Stamp, Goto, snapshotLocals
  <2>2. pc'[t] = "successes" /\ \A u \in Threads \ {t} : pc'[u] = pc[u]
    BY <1>0, <2>1
  <2>3. now[t] <= clock /\ now[t] \in Int /\ pc[t] \in Writing
    BY <1>0, <1>1, <2>1 DEF ClockInv, Writing
  <2>4. ClockInv'
    BY <1>1, <2>1, <2>2, <2>3 DEF ClockInv
  <2>5. ASSUME faults' = 0
        PROVE  (CopiedInv /\ KeyInv /\ SpacedInv /\ CoveredInv)'
    <3>1. CopiedInv /\ KeyInv
      BY <2>1, <2>5 DEF KeepInv
    <3>2. \A u \in Threads : pc'[u] \in {"failures", "set"} => u # t
      BY <2>2
    <3>3. CopiedInv'
      BY <1>1, <2>1, <2>2, <3>1, <3>2 DEF CopiedInv
    <3>4. KeyInv'
      BY <1>1, <2>1, <3>1 DEF KeyInv
    <3>5. SpacedInv' /\ ~AllIdle'
      BY <2>2 DEF SpacedInv, Stamped, Writing, AllIdle
    <3> QED
      BY <3>3, <3>4, <3>5 DEF CoveredInv
  <2> QED
    BY <2>4, <2>5 DEF KeepInv
<1>5. CASE CopySuccesses(t) \/ CopyFailures(t)
  <2>1. /\ pc[t] \in Stamped /\ UNCHANGED <<now, key, faults, lastWrite>>
        /\ pc' = [pc EXCEPT ![t] = IF pc[t] = "successes" THEN "failures" ELSE "set"]
        /\ payload' = [payload EXCEPT ![t] = payload'[t]]
    BY <1>0, <1>5 DEF CopySuccesses, CopyFailures, Goto, Stamped, Writing
  <2>2. /\ pc'[t] = IF pc[t] = "successes" THEN "failures" ELSE "set"
        /\ \A u \in Threads \ {t} : pc'[u] = pc[u] /\ payload'[u] = payload[u]
    BY <1>0, <2>1
  <2>3. ClockInv'
    BY <1>1, <2>1, <2>2 DEF ClockInv, Stamped, Writing
  <2>4. ASSUME faults' = 0
        PROVE  (CopiedInv /\ KeyInv /\ SpacedInv /\ CoveredInv)'
    <3>1. CopiedInv /\ KeyInv /\ faults = 0
      BY <2>1, <2>4 DEF KeepInv
    <3>2. posterior.successes = DOMAIN credited /\ posterior.failures = DOMAIN credited
      BY <3>1 DEF Absorbed
    <3>3. /\ payload'[t].at = now[t]
          /\ \A o \in DOMAIN credited : credited[o] < now[t] =>
               /\ o \in payload'[t].successes
               /\ pc'[t] = "set" => o \in payload'[t].failures
      <4>1. CASE CopySuccesses(t)
        <5>1. /\ payload'[t] = [successes |-> posterior.successes, failures |-> {}, at |-> now[t]]
              /\ pc'[t] = "failures"
          BY <1>0, <2>2, <4>1 DEF CopySuccesses
        <5> QED
          BY <3>2, <5>1
      <4>2. CASE CopyFailures(t)
        <5>1. /\ payload'[t] = [payload[t] EXCEPT !.failures = posterior.failures]
              /\ pc[t] = "failures" /\ payload[t] \in Snapshots
          BY <1>0, <4>2 DEF CopyFailures, SnapshotTypes
        <5>2. /\ payload'[t].at = payload[t].at /\ payload'[t].successes = payload[t].successes
              /\ payload'[t].failures = posterior.failures
          BY <5>1 DEF Snapshots
        <5> QED
          BY <3>1, <3>2, <5>1, <5>2 DEF CopiedInv
      <4> QED
        BY <1>5, <4>1, <4>2
    <3>4. CopiedInv'
      BY <1>1, <2>1, <2>2, <3>1, <3>3 DEF CopiedInv
    <3>5. KeyInv'
      BY <1>1, <2>1, <3>1 DEF KeyInv
    <3>6. SpacedInv' /\ ~AllIdle'
      BY <2>2 DEF SpacedInv, Stamped, Writing, AllIdle
    <3> QED
      BY <3>4, <3>5, <3>6 DEF CoveredInv
  <2> QED
    BY <2>3, <2>4 DEF KeepInv
<1>6. CASE Set(t)
  <2>1. /\ pc[t] = "set" /\ pc' = [pc EXCEPT ![t] = "idle"] /\ now' = [now EXCEPT ![t] = 0]
        /\ payload' = [payload EXCEPT ![t] = Nothing] /\ lastWrite' = lastWrite
    BY <1>6 DEF Set, Goto
  <2>2. /\ pc'[t] = "idle"
        /\ \A u \in Threads \ {t} : pc'[u] = pc[u] /\ now'[u] = now[u] /\ payload'[u] = payload[u]
    BY <1>0, <2>1
  <2>3. ClockInv'
    BY <1>1, <2>1, <2>2 DEF ClockInv, Writing
  <2>4. ASSUME faults' = 0
        PROVE  (CopiedInv /\ KeyInv /\ SpacedInv /\ CoveredInv)'
    <3>1. CopiedInv /\ faults = 0
      BY <1>2, <2>4 DEF KeepInv
    <3>2. key' = payload[t] /\ payload[t] \in Snapshots
      BY <1>0, <1>6, <2>1, <2>4, <3>1 DEF Set, Fault, SnapshotTypes
    <3>3. /\ key' # Nothing /\ key'.at = now[t]
          /\ \A o \in DOMAIN credited : credited[o] < now[t] =>
               o \in key'.successes /\ o \in key'.failures
      BY <2>1, <3>1, <3>2, SnapshotAssumption DEF CopiedInv, Snapshots
    <3>4. now[t] \in Int /\ now[t] <= clock /\ clock <= now[t] + SaveSeconds
      BY <1>0, <1>1, <2>1 DEF ClockInv, Writing
    <3>5. CopiedInv'
      BY <1>1, <2>2, <3>1 DEF CopiedInv
    <3>6. KeyInv'
      BY <1>1, <3>3, <3>4 DEF KeyInv
    <3>7. SpacedInv'
      BY <1>0, <2>1, <3>3, <3>4 DEF SpacedInv
    <3>8. CoveredInv'
      <4> SUFFICES ASSUME NEW o \in DOMAIN credited
                   PROVE  key' # Nothing /\ credited[o] < key'.at + Interval + SaveSeconds
        BY <1>1 DEF CoveredInv, Recent
      <4>1. credited[o] \in Int /\ credited[o] <= clock
        BY <1>0
      <4>2. credited[o] < now[t] + Interval + SaveSeconds
        BY <1>0, <3>4, <4>1
      <4> QED
        BY <3>3, <4>2
    <3> QED
      BY <3>5, <3>6, <3>7, <3>8
  <2> QED
    BY <2>3, <2>4 DEF KeepInv
<1> QED
  BY <1>3, <1>4, <1>5, <1>6 DEF Save, SnapshotStep

LEMMA StartKeepsUp ==
  ASSUME PipelineTypes, SnapshotTypes, KeepInv, Restart \/ Crash
  PROVE  KeepInv'
<1>1. /\ pc' = [t \in Threads |-> "idle"] /\ lastWrite' = LongAgo
      /\ UNCHANGED <<clock, key, credited>>
  BY DEF Restart, Crash, Start
<1>2. \A t \in Threads : pc'[t] = "idle"
  BY <1>1
<1>3. clock \in Nat /\ Interval \in Nat /\ LongAgo = -Interval
  BY SnapshotAssumption DEF KeepInv, ClockInv, LongAgo
<1>4. LongAgo \in Int /\ LongAgo <= clock /\ ~(clock - LongAgo < Interval)
  BY <1>3
<1>5. ClockInv'
  BY <1>1, <1>2, <1>3, <1>4 DEF KeepInv, ClockInv, Writing
<1>6. ASSUME faults' = 0
      PROVE  (CopiedInv /\ KeyInv /\ SpacedInv /\ CoveredInv)'
  <2>1. faults = 0 /\ AllIdle
    BY <1>6 DEF Restart, Crash, Fault, SnapshotTypes
  <2>2. KeyInv /\ CoveredInv
    BY <2>1 DEF KeepInv
  <2>3. CopiedInv' /\ SpacedInv'
    BY <1>1, <1>2, <1>4 DEF CopiedInv, SpacedInv
  <2>4. KeyInv' /\ CoveredInv'
    BY <1>1, <2>1, <2>2 DEF KeyInv, CoveredInv, Recent
  <2> QED
    BY <2>3, <2>4
<1> QED
  BY <1>5, <1>6 DEF KeepInv

LEMMA KeepKept ==
  ASSUME PipelineTypes, SnapshotTypes, Absorbed, KeepInv, [Next]_vars
  PROVE  KeepInv'
<1>1. CASE Tick
  <2>1. /\ SavesArePrompt /\ clock' = clock + 1
        /\ UNCHANGED <<pc, faults, lastWrite, key, now, payload, credited>>
    BY <1>1 DEF Tick, Second, snapshotLocals
  <2>2. /\ clock \in Nat /\ lastWrite \in Int /\ now \in [Threads -> Int]
        /\ Interval \in Nat /\ SaveSeconds \in Nat
        /\ \A o \in DOMAIN credited : credited[o] \in Int
    BY SnapshotAssumption DEF KeepInv, ClockInv, SnapshotTypes, PipelineTypes
  <2>3. ClockInv'
    <3>1. \A t \in Threads : pc[t] \in Writing => now[t] <= clock + 1 /\ clock + 1 <= now[t] + SaveSeconds
      BY <2>1, <2>2 DEF KeepInv, ClockInv, SavesArePrompt, Writing
    <3>2. \A o \in DOMAIN credited : credited[o] <= clock + 1
      BY <2>2 DEF KeepInv, ClockInv
    <3>3. lastWrite <= clock + 1 /\ clock + 1 \in Nat
      BY <2>2 DEF KeepInv, ClockInv
    <3> QED
      BY <2>1, <2>2, <3>1, <3>2, <3>3 DEF ClockInv
  <2>4. ASSUME faults' = 0
        PROVE  (CopiedInv /\ KeyInv /\ SpacedInv /\ CoveredInv)'
    <3>1. CopiedInv /\ KeyInv /\ SpacedInv /\ CoveredInv
      BY <2>1, <2>4 DEF KeepInv
    <3>2. CopiedInv' /\ CoveredInv'
      BY <2>1, <3>1 DEF CopiedInv, CoveredInv, Recent, AllIdle
    <3>3. KeyInv'
      <4>1. key # Nothing => key.at \in Int
        BY DEF SnapshotTypes, Snapshots
      <4> QED
        BY <2>1, <2>2, <3>1, <4>1 DEF KeyInv
    <3>4. SpacedInv'
      <4> SUFFICES ASSUME clock' - lastWrite' < Interval
                   PROVE  \/ \E t \in Threads : pc'[t] \in Stamped
                          \/ key' # Nothing /\ lastWrite' <= key'.at + SaveSeconds
        BY DEF SpacedInv
      <4>1. clock - lastWrite < Interval
        BY <2>1, <2>2
      <4>2. pc' = pc /\ key' = key /\ lastWrite' = lastWrite
        BY <2>1
      <4> QED
        BY <3>1, <4>1, <4>2 DEF SpacedInv
    <3> QED
      BY <3>2, <3>3, <3>4
  <2> QED
    BY <2>3, <2>4 DEF KeepInv
<1>2. CASE Peer
  <2>1. /\ faults' # 0 /\ UNCHANGED <<pc, clock, lastWrite, now, credited>>
    BY <1>2 DEF Peer, PeerSaves, Fault, SnapshotTypes, snapshotLocals
  <2> QED
    BY <2>1 DEF KeepInv, ClockInv
<1>3. ASSUME NEW t \in Threads, Shutdown(t)
      PROVE  KeepInv'
  <2>1. /\ pc[t] = "idle" /\ pc' = [pc EXCEPT ![t] = "flush"]
        /\ UNCHANGED <<faults, clock, lastWrite, key, now, payload, credited>>
    BY <1>3 DEF Shutdown, Goto, AllIdle, snapshotLocals
  <2> QED
    BY <2>1, Unwritten DEF Writing
<1>4. CASE UNCHANGED vars
  <2>1. UNCHANGED <<pc, faults, clock, lastWrite, key, now, payload, credited>>
    BY <1>4 DEF vars, snapshotVars, snapshotLocals
  <2> QED
    BY <2>1 DEF KeepInv, ClockInv, CopiedInv, KeyInv, SpacedInv, CoveredInv, Recent, AllIdle
<1> QED
  BY <1>1, <1>2, <1>3, <1>4, RecordKeepsUp, PublishKeepsUp, SaveKeepsUp, StartKeepsUp DEF Next

LEMMA InitiallyKeeps == Init => KeepInv
<1> SUFFICES ASSUME Init PROVE KeepInv
  OBVIOUS
<1>1. /\ \A t \in Threads : pc[t] = "idle"
      /\ credited = <<>> /\ clock = 0 /\ lastWrite = -Interval /\ key = Nothing
  BY DEF Init, SnapshotInit, LongAgo
<1>2. Interval \in Nat /\ -Interval \in Int /\ -Interval <= 0 /\ ~(0 - (-Interval) < Interval)
  BY SnapshotAssumption
<1> QED
  BY <1>1, <1>2 DEF KeepInv, ClockInv, CopiedInv, KeyInv, SpacedInv, CoveredInv, Writing

-------------------------------------------------------------------------------
(* What the counters account for                                             *)

\* Where a thread holds a list whose rows it has not counted.
Holding == Sending \cup {"count"}

HoldersApart ==
  /\ \A t \in Threads : pc[t] \in Holding => ref[t] \in DOMAIN lists /\ ref[t] # Len(lists)
  /\ \A t, u \in Threads :
       pc[t] \in Holding /\ pc[u] \in Holding /\ ref[t] = ref[u] => t = u

CounterTypes ==
  /\ published \in Nat /\ lost \in Nat /\ inserted \in Nat /\ failures \in Nat
  /\ tmp \in [Threads -> Nat] /\ ok \in [Threads -> BOOLEAN]

\* P are the outcomes this process has published; all the rows are of them.
Announced(P) ==
  /\ published + lost = Cardinality(P)
  /\ \A t \in Threads : /\ pc[t] = "produce" => event[t] \notin P
                        /\ pc[t] \in {"lookup", "append"} => event[t] \in P
  /\ \A n \in DOMAIN lists : \A a \in DOMAIN lists[n] : lists[n][a] \in P

\* An outcome in a list that was counted.
Spent(o) ==
  \E n \in DOMAIN lists :
    /\ In(n, o)
    /\ n # Len(lists)
    /\ \A t \in Threads : pc[t] \in Holding => ref[t] # n

\* A and F are the outcomes counted as inserted and as failed.  Of two counts at
\* once one may be lost, hence the inequalities.
Settled(A, F) ==
  /\ A \cap F = {}
  /\ \A o \in A \cup F : Spent(o)
  /\ inserted <= Cardinality(A) /\ failures <= Cardinality(F)
  /\ \A t \in Threads : pc[t] = "counted" =>
       tmp[t] <= IF ok[t] THEN Cardinality(A) ELSE Cardinality(F)

CountInv ==
  /\ CounterTypes /\ HoldersApart
  /\ \E P \in SUBSET DOMAIN credited : Announced(P)
  /\ \E A \in SUBSET DOMAIN credited : \E F \in SUBSET DOMAIN credited : Settled(A, F)

\* A sequence without repetition has as many members as places.
LEMMA AllDifferent ==
  ASSUME NEW q \in Seq(Nat), \A a, b \in DOMAIN q : q[a] = q[b] => a = b
  PROVE  /\ IsFiniteSet({q[a] : a \in DOMAIN q})
         /\ Cardinality({q[a] : a \in DOMAIN q}) = Len(q)
<1> DEFINE R == {q[a] : a \in DOMAIN q}
           f == [a \in 1..Len(q) |-> q[a]]
<1>1. DOMAIN q = 1..Len(q) /\ Len(q) \in Nat
  OBVIOUS
<1>2. f \in Bijection(1..Len(q), R)
  <2>1. f \in [1..Len(q) -> R]
    BY <1>1
  <2>2. \A y \in R : \E a \in 1..Len(q) : f[a] = y
    BY <1>1
  <2>3. \A a, b \in 1..Len(q) : f[a] = f[b] => a = b
    BY <1>1
  <2> QED
    BY <2>1, <2>2, <2>3, SMTT(30) DEF Bijection, Injection, Surjection, IsInjective
<1>3. ExistsBijection(1..Len(q), R)
  BY <1>2 DEF ExistsBijection
<1>4. IsFiniteSet(1..Len(q)) /\ Cardinality(1..Len(q)) = Len(q)
  BY <1>1, FS_Interval
<1> QED
  BY <1>3, <1>4, FS_Bijection

\* The outcomes are finitely many.
LEMMA OutcomesFinite ==
  ASSUME PipelineTypes, NEW P \in SUBSET DOMAIN credited
  PROVE  IsFiniteSet(P) /\ Cardinality(P) \in Nat
<1>1. DOMAIN credited = 1..Len(credited) /\ Len(credited) \in Nat
  BY DEF PipelineTypes
<1>2. IsFiniteSet(DOMAIN credited)
  BY <1>1, FS_Interval
<1> QED
  BY <1>2, FS_Subset, FS_CardinalityType

\* A step of a thread that neither counts nor changes a list or a counter.
LEMMA CountStays ==
  ASSUME PipelineTypes, CountInv, NEW t \in Threads, CounterTypes',
         UNCHANGED <<lists, published, lost, inserted, failures>>,
         DOMAIN credited \subseteq DOMAIN credited',
         \A u \in Threads \ {t} : /\ pc'[u] = pc[u] /\ event'[u] = event[u] /\ ref'[u] = ref[u]
                                  /\ tmp'[u] = tmp[u] /\ ok'[u] = ok[u],
         pc'[t] = "produce" => event'[t] \notin DOMAIN credited,
         pc'[t] \in {"lookup", "append"} => pc[t] \in {"lookup", "append"} /\ event'[t] = event[t],
         pc'[t] \in Holding => pc[t] \in Holding /\ ref'[t] = ref[t],
         pc'[t] # "counted"
  PROVE  CountInv'
<1>1. PICK P \in SUBSET DOMAIN credited : Announced(P)
  BY DEF CountInv
<1>2. PICK A \in SUBSET DOMAIN credited : \E F \in SUBSET DOMAIN credited : Settled(A, F)
  BY DEF CountInv
<1>3. PICK F \in SUBSET DOMAIN credited : Settled(A, F)
  BY <1>2
<1>4. \A u \in Threads : pc'[u] \in Holding => pc[u] \in Holding /\ ref'[u] = ref[u]
  OBVIOUS
<1>5. HoldersApart'
  BY <1>4 DEF CountInv, HoldersApart
<1>6. Announced(P)'
  <2>1. \A u \in Threads : /\ pc'[u] = "produce" => event'[u] \notin P
                           /\ pc'[u] \in {"lookup", "append"} => event'[u] \in P
    BY <1>1 DEF Announced
  <2> QED
    BY <1>1, <2>1 DEF Announced
<1>7. Settled(A, F)'
  <2>1. \A o \in A \cup F : Spent(o)'
    BY <1>3, <1>4 DEF Settled, Spent, In
  <2>2. \A u \in Threads : pc'[u] = "counted" =>
          tmp'[u] <= IF ok'[u] THEN Cardinality(A) ELSE Cardinality(F)
    BY <1>3 DEF Settled
  <2> QED
    BY <1>3, <2>1, <2>2 DEF Settled
<1> QED
  BY <1>5, <1>6, <1>7 DEF CountInv

\* Kafka has the outcome, or has failed to take it: it is announced once.
LEMMA ProduceCounts ==
  ASSUME RowInv, CountInv, NEW t \in Threads, Produce(t), UNCHANGED credited
  PROVE  CountInv'
<1>1. /\ PipelineTypes /\ CounterTypes /\ HoldersApart
      /\ pc[t] = "produce" /\ pc' = [pc EXCEPT ![t] = "lookup"]
      /\ UNCHANGED <<lists, inserted, failures, event, ref, tmp, ok>>
  BY DEF RowInv, CountInv, Produce, Goto, pipelineLocals
<1>2. pc'[t] = "lookup" /\ \A u \in Threads \ {t} : pc'[u] = pc[u]
  BY <1>1 DEF PipelineTypes
<1>3. published' \in Nat /\ lost' \in Nat /\ published' + lost' = published + lost + 1
  BY <1>1 DEF Produce, CounterTypes
<1>4. \E P \in SUBSET DOMAIN credited : Announced(P)'
  <2>1. PICK P \in SUBSET DOMAIN credited : Announced(P)
    BY DEF CountInv
  <2>2. PICK o : o = event[t]
    OBVIOUS
  <2>3. PICK Q : Q = P \cup {o}
    OBVIOUS
  <2>4. /\ o \in DOMAIN credited
        /\ \A u \in Threads \ {t} : pc[u] \in Pending => event[u] # o
    BY <1>1, <2>2 DEF RowInv, PendingFresh, Pending
  <2>5. o \notin P
    BY <1>1, <2>1, <2>2 DEF Announced
  <2>6. Cardinality(Q) = Cardinality(P) + 1 /\ Q \in SUBSET DOMAIN credited
    BY <1>1, <2>3, <2>4, <2>5, OutcomesFinite, FS_AddElement
  <2>7. published' + lost' = Cardinality(Q)
    BY <1>3, <2>1, <2>6 DEF Announced
  <2>8. o \in Q /\ \A x : x \in Q <=> x \in P \/ x = o
    BY <2>3
  <2>9. \A u \in Threads : /\ pc'[u] = "produce" => event'[u] \notin Q
                           /\ pc'[u] \in {"lookup", "append"} => event'[u] \in Q
    <3>1. pc'[t] = "lookup" /\ event'[t] \in Q
      BY <1>1, <1>2, <2>2, <2>8
    <3>2. ASSUME NEW u \in Threads, u # t
          PROVE  /\ pc'[u] = "produce" => event'[u] \notin Q
                 /\ pc'[u] \in {"lookup", "append"} => event'[u] \in Q
      <4>1. pc'[u] = pc[u] /\ event'[u] = event[u]
        BY <1>1, <1>2, <3>2
      <4>2. pc[u] = "produce" => event[u] # o
        BY <2>4, <3>2 DEF Pending
      <4> QED
        BY <2>1, <2>8, <4>1, <4>2 DEF Announced
    <3> QED
      BY <3>1, <3>2
  <2>10. \A n \in DOMAIN lists' : \A a \in DOMAIN lists'[n] : lists'[n][a] \in Q
    BY <1>1, <2>1, <2>8 DEF Announced
  <2>11. Announced(Q)'
    BY <2>7, <2>9, <2>10 DEF Announced
  <2> QED
    BY <2>6, <2>11
<1>9. \A u \in Threads : pc'[u] \in Holding => pc[u] \in Holding
  BY <1>2 DEF Holding, Sending
<1>10. HoldersApart'
  BY <1>1, <1>9 DEF HoldersApart
<1>11. \E A \in SUBSET DOMAIN credited : \E F \in SUBSET DOMAIN credited : Settled(A, F)'
  <2>1. PICK A \in SUBSET DOMAIN credited : \E F \in SUBSET DOMAIN credited : Settled(A, F)
    BY DEF CountInv
  <2>2. PICK F \in SUBSET DOMAIN credited : Settled(A, F)
    BY <2>1
  <2>3. \A x \in A \cup F : Spent(x)'
    BY <1>1, <1>9, <2>2 DEF Settled, Spent, In
  <2>4. \A u \in Threads : pc'[u] = "counted" =>
          tmp'[u] <= IF ok'[u] THEN Cardinality(A) ELSE Cardinality(F)
    BY <1>1, <1>2, <2>2 DEF Settled
  <2>5. Settled(A, F)'
    BY <1>1, <2>2, <2>3, <2>4 DEF Settled
  <2> QED
    BY <2>5
<1>12. CounterTypes'
  BY <1>1, <1>3 DEF CounterTypes
<1> QED
  BY <1>4, <1>10, <1>11, <1>12 DEF CountInv

\* The row of an outcome that was announced, in a list that is not counted yet or
\* was counted without it.
LEMMA AppendCounts ==
  ASSUME RowInv, CountInv, NEW t \in Threads, AppendRow(t), UNCHANGED credited
  PROVE  CountInv'
<1> DEFINE k == ref[t]
           o == event[t]
<1>1. /\ PipelineTypes /\ CounterTypes /\ HoldersApart
      /\ pc[t] = "append" /\ pc' = [pc EXCEPT ![t] = "full"]
      /\ lists' = [lists EXCEPT ![k] = Append(lists[k], o)]
      /\ UNCHANGED <<published, lost, inserted, failures, event, ref, tmp, ok>>
  BY DEF RowInv, CountInv, AppendRow, Goto, pipelineLocals
<1>2. pc'[t] = "full" /\ \A u \in Threads \ {t} : pc'[u] = pc[u]
  BY <1>1 DEF PipelineTypes
<1>3. k \in DOMAIN lists /\ lists \in Seq(Seq(Nat)) /\ lists[k] \in Seq(Nat) /\ o \in Nat
  BY <1>1 DEF PipelineTypes
<1> HIDE DEF k, o
<1> DEFINE row == Append(lists[k], o)
<1>4. row = Append(lists[k], o)
  OBVIOUS
<1> HIDE DEF row
<1>5. /\ row \in Seq(Nat)
      /\ DOMAIN row = DOMAIN lists[k] \cup {Len(row)}
      /\ row[Len(row)] = o
      /\ \A a \in DOMAIN lists[k] : row[a] = lists[k][a]
  BY <1>3, <1>4, Extended, SMTT(30)
<1>6. /\ DOMAIN lists' = DOMAIN lists /\ Len(lists') = Len(lists)
      /\ lists'[k] = row /\ \A n \in DOMAIN lists \ {k} : lists'[n] = lists[n]
  BY <1>1, <1>3, <1>4, <1>5, Replaced
<1>7. \A n \in DOMAIN lists : \A x : In(n, x) => In(n, x)'
  BY <1>5, <1>6 DEF In
<1>8. \A u \in Threads : pc'[u] \in Holding => pc[u] \in Holding
  BY <1>2 DEF Holding, Sending
<1>9. HoldersApart'
  BY <1>1, <1>6, <1>8 DEF HoldersApart
<1>10. \E P \in SUBSET DOMAIN credited : Announced(P)'
  <2>1. PICK P \in SUBSET DOMAIN credited : Announced(P)
    BY DEF CountInv
  <2>2. o \in P
    BY <1>1, <2>1 DEF Announced, o
  <2>3. \A n \in DOMAIN lists' : \A a \in DOMAIN lists'[n] : lists'[n][a] \in P
    <3>1. \A a \in DOMAIN lists[k] : lists[k][a] \in P
      BY <1>3, <2>1 DEF Announced
    <3>2. \A a \in DOMAIN row : row[a] \in P
      BY <1>5, <2>2, <3>1
    <3>3. \A n \in DOMAIN lists \ {k} : \A a \in DOMAIN lists[n] : lists[n][a] \in P
      BY <2>1 DEF Announced
    <3> QED
      BY <1>6, <3>2, <3>3
  <2>4. \A u \in Threads : /\ pc'[u] = "produce" => event'[u] \notin P
                           /\ pc'[u] \in {"lookup", "append"} => event'[u] \in P
    BY <1>1, <1>2, <2>1 DEF Announced
  <2>5. Announced(P)'
    BY <1>1, <2>1, <2>3, <2>4 DEF Announced
  <2> QED
    BY <2>5
<1>11. \E A \in SUBSET DOMAIN credited : \E F \in SUBSET DOMAIN credited : Settled(A, F)'
  <2>1. PICK A \in SUBSET DOMAIN credited : \E F \in SUBSET DOMAIN credited : Settled(A, F)
    BY DEF CountInv
  <2>2. PICK F \in SUBSET DOMAIN credited : Settled(A, F)
    BY <2>1
  <2>3. \A x \in A \cup F : Spent(x)'
    BY <1>1, <1>6, <1>7, <1>8, <2>2 DEF Settled, Spent
  <2>4. \A u \in Threads : pc'[u] = "counted" =>
          tmp'[u] <= IF ok'[u] THEN Cardinality(A) ELSE Cardinality(F)
    BY <1>1, <1>2, <2>2 DEF Settled
  <2>5. Settled(A, F)'
    BY <1>1, <2>2, <2>3, <2>4 DEF Settled
  <2> QED
    BY <2>5
<1>12. CounterTypes'
  BY <1>1 DEF CounterTypes
<1> QED
  BY <1>9, <1>10, <1>11, <1>12 DEF CountInv

\* The buffer is taken and replaced.
LEMMA TakeCounts ==
  ASSUME PipelineTypes, CountInv, NEW t \in Threads, pc[t] = "flush",
         pc' = [pc EXCEPT ![t] = "render"], ref' = [ref EXCEPT ![t] = Len(lists)],
         lists' = Append(lists, <<>>),
         UNCHANGED <<event, ok, tmp, published, lost, inserted, failures, credited>>
  PROVE  CountInv'
<1>1. CounterTypes /\ HoldersApart
  BY DEF CountInv
<1>2. lists \in Seq(Seq(Nat)) /\ <<>> \in Seq(Nat) /\ lists # <<>>
  BY DEF PipelineTypes
<1>3. /\ Len(lists) \in Nat /\ Len(lists') = Len(lists) + 1
      /\ DOMAIN lists' = DOMAIN lists \cup {Len(lists')}
      /\ lists'[Len(lists')] = <<>>
      /\ \A n \in DOMAIN lists : lists'[n] = lists[n]
  BY <1>2, Extended, SMTT(30)
<1>4. /\ Len(lists) \in DOMAIN lists /\ Len(lists) # Len(lists')
      /\ \A n \in DOMAIN lists : n # Len(lists')
  BY <1>2, <1>3
<1>5. /\ pc'[t] = "render" /\ ref'[t] = Len(lists)
      /\ \A u \in Threads \ {t} : pc'[u] = pc[u] /\ ref'[u] = ref[u]
  BY DEF PipelineTypes
<1>6. HoldersApart'
  BY <1>1, <1>3, <1>4, <1>5 DEF HoldersApart
<1>7. \A n \in DOMAIN lists : \A x : In(n, x) => In(n, x)'
  BY <1>3 DEF In
<1>8. \E P \in SUBSET DOMAIN credited : Announced(P)'
  <2>1. PICK P \in SUBSET DOMAIN credited : Announced(P)
    BY DEF CountInv
  <2>2. \A n \in DOMAIN lists' : \A a \in DOMAIN lists'[n] : lists'[n][a] \in P
    BY <1>3, <2>1 DEF Announced
  <2>3. \A u \in Threads : /\ pc'[u] = "produce" => event'[u] \notin P
                           /\ pc'[u] \in {"lookup", "append"} => event'[u] \in P
    BY <1>5, <2>1 DEF Announced
  <2>4. Announced(P)'
    BY <2>1, <2>2, <2>3 DEF Announced
  <2> QED
    BY <2>4
<1>9. \E A \in SUBSET DOMAIN credited : \E F \in SUBSET DOMAIN credited : Settled(A, F)'
  <2>1. PICK A \in SUBSET DOMAIN credited : \E F \in SUBSET DOMAIN credited : Settled(A, F)
    BY DEF CountInv
  <2>2. PICK F \in SUBSET DOMAIN credited : Settled(A, F)
    BY <2>1
  <2>3. \A x \in A \cup F : Spent(x)'
    <3> SUFFICES ASSUME NEW x \in A \cup F PROVE Spent(x)'
      OBVIOUS
    <3>1. PICK n \in DOMAIN lists : /\ In(n, x) /\ n # Len(lists)
                                    /\ \A u \in Threads : pc[u] \in Holding => ref[u] # n
      BY <2>2 DEF Settled, Spent
    <3>2. n \in DOMAIN lists' /\ In(n, x)' /\ n # Len(lists')
      BY <1>3, <1>4, <1>7, <3>1
    <3>3. \A u \in Threads : pc'[u] \in Holding => ref'[u] # n
      BY <1>5, <3>1
    <3> QED
      BY <3>2, <3>3 DEF Spent
  <2>4. \A u \in Threads : pc'[u] = "counted" =>
          tmp'[u] <= IF ok'[u] THEN Cardinality(A) ELSE Cardinality(F)
    BY <1>5, <2>2 DEF Settled
  <2>5. Settled(A, F)'
    BY <2>2, <2>3, <2>4 DEF Settled
  <2> QED
    BY <2>5
<1>10. CounterTypes'
  BY <1>1 DEF CounterTypes
<1> QED
  BY <1>6, <1>8, <1>9, <1>10 DEF CountInv

\* Disjoint sets of outcomes add up.
LEMMA CountsAdd ==
  ASSUME PipelineTypes, NEW A \in SUBSET DOMAIN credited, NEW R \in SUBSET DOMAIN credited,
         A \cap R = {}
  PROVE  Cardinality(A \cup R) = Cardinality(A) + Cardinality(R)
<1>1. /\ IsFiniteSet(A) /\ Cardinality(A) \in Nat
      /\ IsFiniteSet(R) /\ Cardinality(R) \in Nat
  BY OutcomesFinite
<1>2. Cardinality(A \cap R) = 0
  BY FS_EmptySet
<1>3. Cardinality(A \cup R) = Cardinality(A) + Cardinality(R) - Cardinality(A \cap R)
  BY <1>1, FS_Union
<1> QED
  BY <1>1, <1>2, <1>3

\* The rows of the list a thread holds are counted by it, and by it alone.
LEMMA CountReadCounts ==
  ASSUME RowInv, CountInv, NEW t \in Threads, CountRead(t), UNCHANGED credited
  PROVE  CountInv'
<1>1. /\ PipelineTypes /\ ListsApart /\ CounterTypes /\ HoldersApart
      /\ pc[t] = "count" /\ pc' = [pc EXCEPT ![t] = "counted"]
      /\ tmp' = [tmp EXCEPT ![t] = (IF ok[t] THEN inserted ELSE failures) + RowsOf(t)]
      /\ UNCHANGED <<lists, published, lost, inserted, failures, event, ref, ok>>
  BY DEF RowInv, CountInv, CountRead, Goto
<1>2. PICK k : k = ref[t]
  OBVIOUS
<1>3. /\ k \in DOMAIN lists /\ k # Len(lists)
      /\ \A u \in Threads \ {t} : pc[u] \in Holding => ref[u] # k
  BY <1>1, <1>2 DEF HoldersApart, Holding
<1>4. lists \in Seq(Seq(Nat)) /\ lists[k] \in Seq(Nat)
  BY <1>1, <1>3 DEF PipelineTypes
<1>5. PICK R : R = {lists[k][a] : a \in DOMAIN lists[k]}
  OBVIOUS
<1>6. RowsOf(t) = Cardinality(R) /\ RowsOf(t) \in Nat
  <2>1. \A a, b \in DOMAIN lists[k] : lists[k][a] = lists[k][b] => a = b
    BY <1>1, <1>3 DEF ListsApart
  <2>2. Cardinality(R) = Len(lists[k])
    BY <1>4, <1>5, <2>1, AllDifferent
  <2> QED
    BY <1>2, <1>4, <2>2 DEF RowsOf
<1>7. R \in SUBSET DOMAIN credited /\ \A x \in R : In(k, x)
  BY <1>1, <1>3, <1>5 DEF ListsApart, In
<1>8. \A n \in DOMAIN lists : \A x \in R : In(n, x) => n = k
  BY <1>1, <1>3, <1>7 DEF ListsApart, In
<1>9. /\ pc'[t] = "counted"
      /\ tmp'[t] = (IF ok[t] THEN inserted ELSE failures) + RowsOf(t)
      /\ \A u \in Threads \ {t} : pc'[u] = pc[u] /\ tmp'[u] = tmp[u]
  BY <1>1 DEF PipelineTypes, CounterTypes
<1>10. \A u \in Threads : pc'[u] \in Holding => u # t /\ pc[u] \in Holding
  BY <1>9 DEF Holding, Sending
<1>11. HoldersApart'
  BY <1>1, <1>10 DEF HoldersApart
<1>12. CounterTypes'
  <2>1. (IF ok[t] THEN inserted ELSE failures) + RowsOf(t) \in Nat
    BY <1>1, <1>6 DEF CounterTypes
  <2> QED
    BY <1>1, <2>1 DEF CounterTypes
<1>13. \E P \in SUBSET DOMAIN credited : Announced(P)'
  <2>1. PICK P \in SUBSET DOMAIN credited : Announced(P)
    BY DEF CountInv
  <2>2. \A u \in Threads : /\ pc'[u] = "produce" => event'[u] \notin P
                           /\ pc'[u] \in {"lookup", "append"} => event'[u] \in P
    BY <1>1, <1>9, <2>1 DEF Announced
  <2>3. Announced(P)'
    BY <1>1, <2>1, <2>2 DEF Announced
  <2> QED
    BY <2>3
<1>14. \E A \in SUBSET DOMAIN credited : \E F \in SUBSET DOMAIN credited : Settled(A, F)'
  <2>1. PICK A \in SUBSET DOMAIN credited : \E F \in SUBSET DOMAIN credited : Settled(A, F)
    BY DEF CountInv
  <2>2. PICK F \in SUBSET DOMAIN credited : Settled(A, F)
    BY <2>1
  <2>3. A \cap R = {} /\ F \cap R = {}
    <3>1. \A x \in R : ~Spent(x)
      BY <1>1, <1>2, <1>8 DEF Spent, Holding
    <3> QED
      BY <2>2, <3>1 DEF Settled
  <2>4. /\ Cardinality(A) \in Nat /\ Cardinality(F) \in Nat
        /\ Cardinality(A \cup R) = Cardinality(A) + RowsOf(t)
        /\ Cardinality(F \cup R) = Cardinality(F) + RowsOf(t)
    BY <1>1, <1>6, <1>7, <2>3, CountsAdd, OutcomesFinite
  <2>5. PICK B : B = IF ok[t] THEN A \cup R ELSE A
    OBVIOUS
  <2>6. PICK G : G = IF ok[t] THEN F ELSE F \cup R
    OBVIOUS
  <2>7. /\ B \in SUBSET DOMAIN credited /\ G \in SUBSET DOMAIN credited
        /\ B \cap G = {} /\ B \cup G \subseteq A \cup F \cup R
    BY <1>7, <2>2, <2>3, <2>5, <2>6 DEF Settled
  <2>8. /\ Cardinality(B) \in Nat /\ Cardinality(A) <= Cardinality(B)
        /\ Cardinality(G) \in Nat /\ Cardinality(F) <= Cardinality(G)
        /\ Cardinality(B) = Cardinality(A) + IF ok[t] THEN RowsOf(t) ELSE 0
        /\ Cardinality(G) = Cardinality(F) + IF ok[t] THEN 0 ELSE RowsOf(t)
    BY <1>6, <2>4, <2>5, <2>6
  <2>9. \A x \in B \cup G : Spent(x)'
    <3>1. ASSUME NEW x \in A \cup F PROVE Spent(x)'
      <4>1. PICK n \in DOMAIN lists : /\ In(n, x) /\ n # Len(lists)
                                      /\ \A u \in Threads : pc[u] \in Holding => ref[u] # n
        BY <2>2 DEF Settled, Spent
      <4> QED
        BY <1>1, <1>10, <4>1 DEF Spent, In
    <3>2. ASSUME NEW x \in R PROVE Spent(x)'
      <4>1. In(k, x)'
        BY <1>1, <1>7 DEF In
      <4>2. k \in DOMAIN lists' /\ k # Len(lists')
        BY <1>1, <1>3
      <4>3. \A u \in Threads : pc'[u] \in Holding => ref'[u] # k
        BY <1>1, <1>3, <1>10
      <4> QED
        BY <4>1, <4>2, <4>3 DEF Spent
    <3> QED
      BY <2>7, <3>1, <3>2
  <2>10. inserted <= Cardinality(A) /\ failures <= Cardinality(F)
    BY <2>2 DEF Settled
  <2>11. inserted' <= Cardinality(B) /\ failures' <= Cardinality(G)
    BY <1>1, <2>4, <2>8, <2>10 DEF CounterTypes
  <2>12. ASSUME NEW u \in Threads, pc'[u] = "counted"
         PROVE  tmp'[u] <= IF ok'[u] THEN Cardinality(B) ELSE Cardinality(G)
    <3>1. CASE u = t
      <4>1. tmp'[t] = (IF ok[t] THEN inserted ELSE failures) + RowsOf(t) /\ ok' = ok
        BY <1>1, <1>9
      <4>2. CASE ok[t]
        BY <1>1, <1>6, <2>4, <2>8, <2>10, <3>1, <4>1, <4>2 DEF CounterTypes
      <4>3. CASE ~ok[t]
        BY <1>1, <1>6, <2>4, <2>8, <2>10, <3>1, <4>1, <4>3 DEF CounterTypes
      <4> QED
        BY <4>2, <4>3
    <3>2. CASE u # t
      <4>1. pc[u] = "counted" /\ tmp'[u] = tmp[u] /\ ok' = ok
        BY <1>1, <1>9, <2>12, <3>2
      <4>2. tmp[u] <= IF ok[u] THEN Cardinality(A) ELSE Cardinality(F)
        BY <2>2, <4>1 DEF Settled
      <4>3. tmp[u] \in Nat
        BY <1>1 DEF CounterTypes
      <4> QED
        BY <2>4, <2>8, <4>1, <4>2, <4>3
    <3> QED
      BY <3>1, <3>2
  <2>13. Settled(B, G)'
    BY <2>7, <2>9, <2>11, <2>12 DEF Settled
  <2> QED
    BY <2>7, <2>13
<1> QED
  BY <1>11, <1>12, <1>13, <1>14 DEF CountInv

\* A count that is written is that of the outcomes settled by then, or of fewer.
LEMMA CountWriteCounts ==
  ASSUME PipelineTypes, CountInv, NEW t \in Threads, CountWrite(t), UNCHANGED credited
  PROVE  CountInv'
<1>1. /\ CounterTypes /\ HoldersApart
      /\ pc[t] = "counted" /\ pc' = [pc EXCEPT ![t] = "save"]
      /\ UNCHANGED <<lists, published, lost>>
      /\ event' = [event EXCEPT ![t] = 0] /\ ref' = [ref EXCEPT ![t] = 0]
      /\ ok' = [ok EXCEPT ![t] = FALSE] /\ tmp' = [tmp EXCEPT ![t] = 0]
  BY DEF CountInv, CountWrite, Goto, Forget
<1>2. /\ ok[t] => inserted' = tmp[t] /\ failures' = failures
      /\ ~ok[t] => failures' = tmp[t] /\ inserted' = inserted
  BY DEF CountWrite
<1>3. /\ pc'[t] = "save"
      /\ \A u \in Threads \ {t} : /\ pc'[u] = pc[u] /\ event'[u] = event[u] /\ ref'[u] = ref[u]
                                  /\ ok'[u] = ok[u] /\ tmp'[u] = tmp[u]
  BY <1>1 DEF PipelineTypes, CounterTypes
<1>4. \A u \in Threads : pc'[u] \in Holding => u # t /\ pc[u] \in Holding /\ ref'[u] = ref[u]
  BY <1>3 DEF Holding, Sending
<1>5. HoldersApart'
  BY <1>1, <1>4 DEF HoldersApart
<1>6. CounterTypes'
  BY <1>1, <1>2 DEF CounterTypes
<1>7. \E P \in SUBSET DOMAIN credited : Announced(P)'
  <2>1. PICK P \in SUBSET DOMAIN credited : Announced(P)
    BY DEF CountInv
  <2>2. \A u \in Threads : /\ pc'[u] = "produce" => event'[u] \notin P
                           /\ pc'[u] \in {"lookup", "append"} => event'[u] \in P
    BY <1>3, <2>1 DEF Announced
  <2>3. Announced(P)'
    BY <1>1, <2>1, <2>2 DEF Announced
  <2> QED
    BY <2>3
<1>8. \E A \in SUBSET DOMAIN credited : \E F \in SUBSET DOMAIN credited : Settled(A, F)'
  <2>1. PICK A \in SUBSET DOMAIN credited : \E F \in SUBSET DOMAIN credited : Settled(A, F)
    BY DEF CountInv
  <2>2. PICK F \in SUBSET DOMAIN credited : Settled(A, F)
    BY <2>1
  <2>3. \A x \in A \cup F : Spent(x)'
    BY <1>1, <1>4, <2>2 DEF Settled, Spent, In
  <2>4. \A u \in Threads : pc'[u] = "counted" =>
          tmp'[u] <= IF ok'[u] THEN Cardinality(A) ELSE Cardinality(F)
    BY <1>3, <2>2 DEF Settled
  <2>5. inserted' <= Cardinality(A) /\ failures' <= Cardinality(F)
    <3>1. /\ inserted <= Cardinality(A) /\ failures <= Cardinality(F)
          /\ tmp[t] <= IF ok[t] THEN Cardinality(A) ELSE Cardinality(F)
      BY <1>1, <2>2 DEF Settled
    <3> QED
      BY <1>2, <3>1
  <2>6. Settled(A, F)'
    BY <2>2, <2>3, <2>4, <2>5 DEF Settled
  <2> QED
    BY <2>6
<1> QED
  BY <1>5, <1>6, <1>7, <1>8 DEF CountInv

\* A process that starts has counted nothing.
LEMMA InitiallyCounts == Init => CountInv
<1> SUFFICES ASSUME Init PROVE CountInv
  OBVIOUS
<1>0. /\ \A t \in Threads : pc[t] = "idle"
      /\ lists = << <<>> >> /\ published = 0 /\ lost = 0 /\ inserted = 0 /\ failures = 0
      /\ tmp = [t \in Threads |-> 0] /\ ok = [t \in Threads |-> FALSE]
  BY DEF Init, PipelineInit
<1>1. CounterTypes
  BY <1>0 DEF CounterTypes
<1>2. HoldersApart
  BY <1>0 DEF HoldersApart, Holding, Sending
<1>3. Cardinality({}) = 0
  BY FS_EmptySet
<1>4. lists[1] = <<>> /\ DOMAIN lists = {1} /\ DOMAIN lists[1] = {}
  BY <1>0
<1>5. Announced({})
  BY <1>0, <1>3, <1>4 DEF Announced
<1>6. Settled({}, {})
  BY <1>0, <1>3 DEF Settled
<1>7. {} \in SUBSET DOMAIN credited
  OBVIOUS
<1> QED
  BY <1>1, <1>2, <1>5, <1>6, <1>7 DEF CountInv

LEMMA StartCounts ==
  ASSUME Restart \/ Crash
  PROVE  CountInv'
<1>0. /\ \A t \in Threads : pc'[t] = "idle"
      /\ lists' = << <<>> >> /\ published' = 0 /\ lost' = 0 /\ inserted' = 0 /\ failures' = 0
      /\ tmp' = [t \in Threads |-> 0] /\ ok' = [t \in Threads |-> FALSE]
  BY DEF Restart, Crash, Start, Forgotten
<1>1. CounterTypes'
  BY <1>0 DEF CounterTypes
<1>2. HoldersApart'
  BY <1>0 DEF HoldersApart, Holding, Sending
<1>3. Cardinality({}) = 0
  BY FS_EmptySet
<1>4. lists'[1] = <<>> /\ DOMAIN lists' = {1} /\ DOMAIN lists'[1] = {}
  BY <1>0
<1>5. Announced({})'
  BY <1>0, <1>3, <1>4 DEF Announced
<1>6. Settled({}, {})'
  BY <1>0, <1>3 DEF Settled
<1>7. {} \in SUBSET DOMAIN credited'
  OBVIOUS
<1> QED
  BY <1>1, <1>2, <1>5, <1>6, <1>7 DEF CountInv

LEMMA PipelineCounts ==
  ASSUME RowInv, CountInv, NEW t \in Threads, PipelineStep(t), UNCHANGED credited
  PROVE  CountInv'
<1>1. PipelineTypes /\ CounterTypes
  BY DEF RowInv, CountInv
<1>2. CASE Lookup(t)
  <2>1. /\ pc[t] = "lookup" /\ pc' = [pc EXCEPT ![t] = "append"]
        /\ ref' = [ref EXCEPT ![t] = Len(lists)]
        /\ UNCHANGED <<lists, published, lost, inserted, failures, event, ok, tmp>>
    BY <1>2 DEF Lookup, Goto
  <2>2. /\ pc'[t] = "append"
        /\ \A u \in Threads \ {t} : pc'[u] = pc[u] /\ ref'[u] = ref[u]
    BY <1>1, <2>1 DEF PipelineTypes
  <2>3. CounterTypes'
    BY <1>1, <2>1 DEF CounterTypes
  <2> QED
    BY <1>1, <2>1, <2>2, <2>3, CountStays DEF Holding, Sending
<1>3. ASSUME NEW where \in {"save", "idle"}, pc' = [pc EXCEPT ![t] = where], Forget(t),
             UNCHANGED <<lists, published, lost, inserted, failures>>
      PROVE  CountInv'
  <2>1. CounterTypes'
    BY <1>1, <1>3 DEF CounterTypes, Forget
  <2>2. /\ pc'[t] = where
        /\ \A u \in Threads \ {t} : /\ pc'[u] = pc[u] /\ event'[u] = event[u] /\ ref'[u] = ref[u]
                                    /\ tmp'[u] = tmp[u] /\ ok'[u] = ok[u]
    BY <1>1, <1>3 DEF PipelineTypes, CounterTypes, Forget
  <2> QED
    BY <1>1, <1>3, <2>1, <2>2, CountStays DEF Holding, Sending
<1>4. CASE CheckFull(t)
  <2>1. CASE Goto(t, "flush") /\ UNCHANGED pipelineLocals
    <3>1. /\ pc' = [pc EXCEPT ![t] = "flush"]
          /\ UNCHANGED <<lists, published, lost, inserted, failures, event, ref, ok, tmp>>
      BY <1>4, <2>1 DEF CheckFull, Goto, pipelineLocals
    <3>2. pc'[t] = "flush" /\ \A u \in Threads \ {t} : pc'[u] = pc[u]
      BY <1>1, <3>1 DEF PipelineTypes
    <3>3. CounterTypes'
      BY <1>1, <3>1 DEF CounterTypes
    <3> QED
      BY <1>1, <3>1, <3>2, <3>3, CountStays DEF Holding, Sending
  <2>2. CASE Goto(t, "save") /\ Forget(t)
    BY <1>3, <1>4, <2>2 DEF CheckFull, Goto
  <2> QED
    BY <1>4, <2>1, <2>2 DEF CheckFull
<1>5. CASE Flush(t)
  <2>1. CASE Goto(t, "save") /\ Forget(t) /\ UNCHANGED lists
    BY <1>3, <1>5, <2>1 DEF Flush, Goto
  <2>2. CASE /\ ref' = [ref EXCEPT ![t] = Len(lists)]
             /\ lists' = Append(lists, <<>>)
             /\ Goto(t, "render")
             /\ UNCHANGED <<event, body, ok, tmp>>
    BY <1>1, <1>5, <2>2, TakeCounts DEF Flush, Goto
  <2> QED
    BY <1>5, <2>1, <2>2 DEF Flush
<1>6. CASE Render(t) \/ (Post(t) /\ Goto(t, "count"))
  <2>1. PICK where \in {"post", "count"} : pc' = [pc EXCEPT ![t] = where]
    BY <1>6 DEF Render, Post, Goto
  <2>2. /\ pc[t] \in {"render", "post"}
        /\ ok' \in {ok, [ok EXCEPT ![t] = TRUE]}
        /\ UNCHANGED <<lists, published, lost, inserted, failures, event, ref, tmp>>
    BY <1>6 DEF Render, Post
  <2>3. /\ pc'[t] = where
        /\ \A u \in Threads \ {t} : pc'[u] = pc[u] /\ ok'[u] = ok[u]
    BY <1>1, <2>1, <2>2 DEF PipelineTypes, CounterTypes
  <2>4. CounterTypes'
    BY <1>1, <2>2 DEF CounterTypes
  <2> QED
    BY <1>1, <2>2, <2>3, <2>4, CountStays DEF Holding, Sending
<1>7. CASE Post(t)
  BY <1>6, <1>7 DEF Post
<1>8. CASE PostRaises(t)
  BY <1>3, <1>8 DEF PostRaises, Goto
<1> QED
  BY <1>1, <1>2, <1>4, <1>5, <1>6, <1>7, <1>8, ProduceCounts, AppendCounts, CountReadCounts,
     CountWriteCounts DEF PipelineStep

LEMMA CountKept ==
  ASSUME RowInv, CountInv, [Next]_vars
  PROVE  CountInv'
<1>1. PipelineTypes /\ CounterTypes
  BY DEF RowInv, CountInv
<1>2. ASSUME NEW t \in Threads, Record(t)
      PROVE  CountInv'
  <2>1. /\ pc' = [pc EXCEPT ![t] = "produce"]
        /\ event' = [event EXCEPT ![t] = Len(credited) + 1]
        /\ credited' = Append(credited, clock)
        /\ UNCHANGED <<lists, published, lost, inserted, failures, ref, ok, tmp>>
    BY <1>2 DEF Record, Goto
  <2>2. /\ Len(credited) + 1 \notin DOMAIN credited
        /\ DOMAIN credited \subseteq DOMAIN credited'
    <3>1. credited \in Seq(Int) /\ clock \in Int
      BY <1>1 DEF PipelineTypes
    <3> QED
      BY <2>1, <3>1, Extended
  <2>3. /\ pc'[t] = "produce" /\ event'[t] = Len(credited) + 1
        /\ \A u \in Threads \ {t} : pc'[u] = pc[u] /\ event'[u] = event[u]
    BY <1>1, <2>1 DEF PipelineTypes
  <2>4. CounterTypes'
    BY <1>1, <2>1 DEF CounterTypes
  <2> QED
    BY <1>1, <2>1, <2>2, <2>3, <2>4, CountStays DEF Holding, Sending
<1>3. ASSUME NEW t \in Threads, Publish(t)
      PROVE  CountInv'
  BY <1>3, PipelineCounts DEF Publish
<1>4. ASSUME NEW t \in Threads, Save(t) \/ Shutdown(t)
      PROVE  CountInv'
  <2>1. PICK where \in {"stamp", "idle", "successes", "failures", "set", "flush"} :
          pc' = [pc EXCEPT ![t] = where]
    BY <1>4 DEF Save, SnapshotStep, Check, Stamp, CopySuccesses, CopyFailures, Set, Goto, Shutdown
  <2>2. UNCHANGED <<lists, published, lost, inserted, failures, event, ref, ok, tmp, credited>>
    BY <1>4 DEF Save, SnapshotStep, Check, Stamp, CopySuccesses, CopyFailures, Set, Shutdown,
                pipelineVars, pipelineLocals
  <2>3. pc'[t] = where /\ \A u \in Threads \ {t} : pc'[u] = pc[u]
    BY <1>1, <2>1 DEF PipelineTypes
  <2>4. CounterTypes'
    BY <1>1, <2>2 DEF CounterTypes
  <2> QED
    BY <1>1, <2>2, <2>3, <2>4, CountStays DEF Holding, Sending
<1>5. CASE Restart \/ Crash
  BY <1>5, StartCounts
<1>6. CASE Tick \/ Peer \/ UNCHANGED vars
  <2>1. UNCHANGED <<pc, lists, published, lost, inserted, failures, event, ref, ok, tmp, credited>>
    BY <1>6 DEF Tick, Second, Peer, PeerSaves, vars, snapshotVars, pipelineVars, pipelineLocals
  <2> QED
    <3>1. CounterTypes' /\ HoldersApart'
      BY <2>1 DEF CountInv, CounterTypes, HoldersApart
    <3>2. \A P : Announced(P) => Announced(P)'
      BY <2>1 DEF Announced
    <3>3. \A x : Spent(x) => Spent(x)'
      BY <2>1 DEF Spent, In
    <3>4. \A A, F : Settled(A, F) => Settled(A, F)'
      BY <2>1, <3>3 DEF Settled
    <3> QED
      BY <2>1, <3>1, <3>2, <3>4 DEF CountInv
<1> QED
  BY <1>2, <1>3, <1>4, <1>5, <1>6 DEF Next

-------------------------------------------------------------------------------
(* Theorems                                                                  *)

LEMMA RowInvariant == Spec => []RowInv
<1> QED
  BY InitiallyRows, RowKept, PTL DEF Spec

\* No outcome is in ClickHouse twice, for any number of threads that append and
\* flush without a lock, any calls that fail after they were carried out, and any
\* crashes.
THEOREM NothingTwice == Spec => []NoRowTwice
<1>1. RowInv => NoRowTwice
  BY DEF RowInv
<1> QED
  BY <1>1, RowInvariant, PTL

\* No full batch is held back when no handler runs, whatever size it has.
THEOREM FullBatchesGo == Spec => []FullBatchIsSent
<1>1. Init => FullIsSeen
  <2> SUFFICES ASSUME Init PROVE FullIsSeen
    OBVIOUS
  <2>1. Buffer = <<>>
    BY DEF Init, PipelineInit, Buffer
  <2> QED
    BY <2>1, PipelineAssumption DEF FullIsSeen
<1>2. RowInv /\ FullIsSeen /\ [Next]_vars => FullIsSeen'
  BY FullSeenKept DEF RowInv
<1>3. RowInv /\ FullIsSeen => FullBatchIsSent
  <2> SUFFICES ASSUME RowInv, FullIsSeen, AllIdle PROVE Len(Buffer) < BatchSize
    BY DEF FullBatchIsSent
  <2>1. ~(Len(Buffer) >= BatchSize)
    BY DEF FullIsSeen, AllIdle
  <2>2. Len(Buffer) \in Nat /\ BatchSize \in Nat
    <3>1. lists \in Seq(Seq(Nat)) /\ lists # <<>>
      BY DEF RowInv, PipelineTypes
    <3>2. lists[Len(lists)] \in Seq(Nat)
      BY <3>1
    <3> QED
      BY <3>2, PipelineAssumption DEF Buffer
  <2> QED
    BY <2>1, <2>2
<1> QED
  BY <1>1, <1>2, <1>3, RowInvariant, PTL DEF Spec

\* A server that stops in order has saved every outcome and sent every row, over
\* any number of such stops.
THEOREM StopsClean == Spec => []CleanStopKeepsAll
<1>1. RowInv => PipelineTypes
  BY DEF RowInv
<1>2. PipelineTypes /\ StopInv /\ [Next]_vars => StopInv'
  BY StopKept
<1>3. StopInv => CleanStopKeepsAll
  BY DEF StopInv
<1> QED
  BY <1>1, <1>2, <1>3, InitiallyStop, RowInvariant, PTL DEF Spec

\* Outcomes that the snapshot has not got were absorbed since it was begun, by less
\* than an interval and the length of a save, for any interval and any number of
\* threads that save without a lock.
THEOREM SnapshotsKeepUp == Spec => []SnapshotKeepsUp
<1>1. RowInv => PipelineTypes
  BY DEF RowInv
<1>2. PipelineTypes /\ StopInv /\ [Next]_vars => StopInv'
  BY StopKept
<1>3. PipelineTypes /\ StopInv /\ KeepInv /\ [Next]_vars => KeepInv'
  BY KeepKept DEF StopInv
<1>4. PipelineTypes /\ StopInv /\ KeepInv => SnapshotKeepsUp
  <2> SUFFICES ASSUME PipelineTypes, StopInv, KeepInv, faults = 0, AllIdle,
                      NEW o \in DOMAIN credited
               PROVE  /\ key # Nothing
                      /\ \/ o \in key.successes /\ o \in key.failures
                         \/ /\ credited[o] >= key.at
                            /\ credited[o] < key.at + Interval + SaveSeconds
    BY DEF SnapshotKeepsUp
  <2>1. Recent(o) /\ KeyInv
    BY DEF KeepInv, CoveredInv
  <2>2. key.at \in Int /\ credited[o] \in Int
    BY <2>1 DEF Recent, StopInv, SnapshotTypes, Snapshots, PipelineTypes
  <2> QED
    BY <2>1, <2>2 DEF Recent, KeyInv
<1> QED
  BY <1>1, <1>2, <1>3, <1>4, InitiallyStop, InitiallyKeeps, RowInvariant, PTL DEF Spec

\* The counters of the ClickHouse sink and the rows that wait are of outcomes this
\* process published, each in one of them, whatever threads count at once.
THEOREM EachCountedOnce == Spec => []CountedOnce
<1>1. Init => CountInv
  BY InitiallyCounts
<1>2. RowInv /\ CountInv /\ [Next]_vars => CountInv'
  BY CountKept
<1>3. RowInv /\ CountInv => CountedOnce
  <2> SUFFICES ASSUME RowInv, CountInv PROVE CountedOnce
    OBVIOUS
  <2>1. PipelineTypes /\ ListsApart /\ CounterTypes
    BY DEF RowInv, CountInv
  <2>2. PICK P \in SUBSET DOMAIN credited : Announced(P)
    BY DEF CountInv
  <2>3. PICK A \in SUBSET DOMAIN credited : \E F \in SUBSET DOMAIN credited : Settled(A, F)
    BY DEF CountInv
  <2>4. PICK F \in SUBSET DOMAIN credited : Settled(A, F)
    BY <2>3
  <2>5. PICK k : k = Len(lists)
    OBVIOUS
  <2>6. k \in DOMAIN lists /\ lists[k] \in Seq(Nat) /\ Buffer = lists[k]
    BY <2>1, <2>5 DEF PipelineTypes, Buffer
  <2>7. PICK R : R = {lists[k][a] : a \in DOMAIN lists[k]}
    OBVIOUS
  <2>8. \A a, b \in DOMAIN lists[k] : lists[k][a] = lists[k][b] => a = b
    BY <2>1, <2>6 DEF ListsApart
  <2>9. Cardinality(R) = Len(Buffer)
    BY <2>6, <2>7, <2>8, AllDifferent
  <2>10. R \in SUBSET P
    BY <2>2, <2>6, <2>7 DEF Announced
  <2>11. A \in SUBSET P /\ F \in SUBSET P
    BY <2>2, <2>4 DEF Announced, Settled, Spent, In
  <2>12. \A x \in A \cup F : x \notin R
    <3>1. \A n \in DOMAIN lists : \A x \in R : In(n, x) => n = k
      BY <2>1, <2>6, <2>7 DEF ListsApart, In
    <3> QED
      BY <2>4, <2>5, <3>1 DEF Settled, Spent
  <2>13. Cardinality(A \cup F) = Cardinality(A) + Cardinality(F)
    BY <2>1, <2>4, CountsAdd DEF Settled
  <2>14. Cardinality((A \cup F) \cup R) = Cardinality(A \cup F) + Cardinality(R)
    BY <2>1, <2>2, <2>10, <2>12, CountsAdd
  <2>15. Cardinality((A \cup F) \cup R) <= Cardinality(P)
    BY <2>1, <2>10, <2>11, OutcomesFinite, FS_Subset
  <2>16. /\ Cardinality(A) \in Nat /\ Cardinality(F) \in Nat /\ Cardinality(R) \in Nat
         /\ Cardinality(P) \in Nat
    BY <2>1, <2>10, OutcomesFinite
  <2>17. /\ inserted <= Cardinality(A) /\ failures <= Cardinality(F)
         /\ published + lost = Cardinality(P)
    BY <2>2, <2>4 DEF Settled, Announced
  <2> QED
    BY <2>1, <2>9, <2>13, <2>14, <2>15, <2>16, <2>17 DEF CountedOnce, CounterTypes
<1> QED
  BY <1>1, <1>2, <1>3, RowInvariant, PTL DEF Spec

===============================================================================
