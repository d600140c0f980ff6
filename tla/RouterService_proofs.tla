-------------------------- MODULE RouterService_proofs --------------------------
(***************************************************************************)
(* What RouterService guarantees for any number of threads, any reports    *)
(* and any history limit.                                                  *)
(*                                                                         *)
(* The inductive invariant IInv says, beyond the types, who may be inside  *)
(* a critical section (LockInv) and what the section has done so far: how  *)
(* far the five lists are apart (ColumnsInv), how far the posterior is     *)
(* ahead (PosteriorInv), which tick the writer holds (StampInv), what a    *)
(* counter update read (CountInv) and what a reader copied (CopyInv).      *)
(***************************************************************************)
EXTENDS RouterService, FiniteSetTheorems, SequenceTheorems, TLAPS

\* Everything a history list may hold.
Cell == {Row(r, n)[c] : r \in Outcomes, n \in 0..MaxTick, c \in Columns}

Table == [Columns -> Seq(Cell)]

ArgInv ==
  \A t \in Threads : pc[t] \in {"update", "credit", "append"} => arg[t] \in Outcomes

StateInv ==
  /\ TypeOK
  /\ ArgInv
  /\ hist \in Table
  /\ DOMAIN arg = Threads /\ DOMAIN copy = Threads /\ DOMAIN view = Threads

\* The holder of the lock is the one thread inside a critical section.
LockInv == \A t \in Threads : pc[t] \in Critical <=> lock = t

\* The only thread that may write the counter still holds its current value.
CountInv ==
  /\ NoDecisionLost
  /\ \A t \in Threads : pc[t] = "count_write" => tmp[t] = decisions

\* The posterior is one decay ahead of its credits exactly while a thread is
\* between the two.
PosteriorInv ==
  /\ DecisionsSeeWholeUpdates
  /\ (\E t \in Threads : pc[t] = "credit")
       => decays = Len(credits) + 1
  /\ ~(\E t \in Threads : pc[t] = "credit")
       => decays = Len(credits)

\* How far the five lists are apart: not at all unless a thread is appending,
\* which has extended the columns before col, or trimming, which has shortened
\* them by the one row that was too many.
ColumnsInv ==
  /\ (\A t \in Threads : pc[t] \notin {"append", "trim"})
       => \E n \in 0..HistoryLimit : \A c \in Columns : Len(hist[c]) = n
  /\ \A t \in Threads : pc[t] = "append" =>
       \E n \in 0..HistoryLimit : \A c \in Columns :
         Len(hist[c]) = IF c < col[t] THEN n + 1 ELSE n
  /\ \A t \in Threads : pc[t] = "trim" =>
       /\ drop[t] = 1
       /\ \A c \in Columns :
            Len(hist[c]) = IF c < col[t] THEN HistoryLimit ELSE HistoryLimit + 1

\* The tick a writer has read but not appended is no older than any in the list
\* and no newer than now.
StampInv ==
  /\ Sorted(hist[TickCol])
  /\ \A i \in DOMAIN hist[TickCol] : hist[TickCol][i] <= tick
  /\ \A t \in Threads : pc[t] = "append" =>
       /\ stamp[t] <= tick
       /\ col[t] = TickCol =>
            \A i \in DOMAIN hist[TickCol] : hist[TickCol][i] <= stamp[t]

\* What a reader has copied is still what the lists hold, and a finished copy
\* is five lists of one length with the ticks in order.
CopyInv ==
  /\ \A t \in Threads :
       /\ DOMAIN copy[t] = Columns
       /\ pc[t] = "copy" =>
            /\ col[t] > TickCol
            /\ \A c \in Columns : c < col[t] => copy[t][c] = hist[c]
  /\ CopiesAreWhole
  /\ \A t \in Threads : view[t] # Nothing => Sorted(view[t][TickCol])

-------------------------------------------------------------------------------

(* Facts about five lists of which one is appended to or trimmed.             *)

LEMMA AppendToColumn ==
  ASSUME NEW T, NEW h \in [Columns -> Seq(T)], NEW c \in Columns, NEW v \in T,
         NEW U, NEW d \in Columns, h[d] \in Seq(U), c = d => v \in U
  PROVE  /\ [h EXCEPT ![c] = Append(@, v)] \in [Columns -> Seq(T)]
         /\ [h EXCEPT ![c] = Append(@, v)][d] \in Seq(U)
BY DEF Columns

LEMMA DropFromColumn ==
  ASSUME NEW T, NEW h \in [Columns -> Seq(T)], NEW c \in Columns, NEW n \in Nat,
         NEW U, NEW d \in Columns, h[d] \in Seq(U)
  PROVE  /\ [h EXCEPT ![c] = DropFirst(@, n)] \in [Columns -> Seq(T)]
         /\ [h EXCEPT ![c] = DropFirst(@, n)][d] \in Seq(U)
BY SMTT(30) DEF Columns, DropFirst

\* An append lengthens its own list by one and leaves the rows that were there.
LEMMA AppendRows ==
  ASSUME NEW T, NEW h \in [Columns -> Seq(T)], NEW c \in Columns, NEW v \in T,
         NEW d \in Columns
  PROVE  LET g == [h EXCEPT ![c] = Append(@, v)] IN
         /\ Len(g[d]) = IF d = c THEN Len(h[d]) + 1 ELSE Len(h[d])
         /\ \A i \in 1..Len(h[d]) : g[d][i] = h[d][i]
         /\ d = c => g[d][Len(h[d]) + 1] = v
         /\ d # c => g[d] = h[d]
BY DEF Columns

\* A deletion shortens its own list by one and shifts its rows.
LEMMA DropRows ==
  ASSUME NEW T, NEW h \in [Columns -> Seq(T)], NEW c \in Columns, Len(h[c]) >= 1,
         NEW d \in Columns
  PROVE  LET g == [h EXCEPT ![c] = DropFirst(@, 1)] IN
         /\ Len(g[d]) = IF d = c THEN Len(h[d]) - 1 ELSE Len(h[d])
         /\ d = c => \A i \in 1..(Len(h[d]) - 1) : g[d][i] = h[d][i + 1]
         /\ d # c => g[d] = h[d]
BY DEF Columns, DropFirst

\* A row's tick and issuer have the type of their column.
LEMMA RowType ==
  ASSUME NEW r \in Outcomes, NEW n \in 0..MaxTick, NEW c \in Columns
  PROVE  /\ Row(r, n)[c] \in Cell
         /\ c = TickCol => Row(r, n)[c] \in 0..MaxTick
         /\ c = IssuerCol => Row(r, n)[c] \in Issuers
<1>1. Row(r, n)[c] \in Cell
  BY DEF Cell
<1>2. c = TickCol => Row(r, n)[c] = n
  BY DEF Row, TickCol
<1>3. c = IssuerCol => Row(r, n)[c] = HistIssuer(r)
  BY DEF Row, IssuerCol
<1>4. HistIssuer(r) \in Issuers
  BY ConstantsAssumption DEF HistIssuer
<1> QED
  BY <1>1, <1>2, <1>3, <1>4

\* The argument of a handler is a report of a known gateway until it is recorded.
LEMMA ArgStep ==
  ASSUME ArgInv, DOMAIN pc = Threads, DOMAIN arg = Threads, [Next]_vars
  PROVE  ArgInv'
<1>1. CASE UNCHANGED vars
  BY <1>1 DEF vars, local, ArgInv
<1>2. CASE Tick
  BY <1>2 DEF Tick, local, ArgInv
<1>3. CASE Quiescent
  BY <1>3 DEF Quiescent, vars, local, ArgInv
<1>4. ASSUME NEW t \in Threads, NEW i \in Issuers, RouteArrives(t, i)
      PROVE  ArgInv'
  BY <1>4 DEF RouteArrives, Goto, ArgInv
<1>5. ASSUME NEW t \in Threads, NEW r \in Reports, OutcomeRejected(t, r)
      PROVE  ArgInv'
  BY <1>5 DEF OutcomeRejected, local, ArgInv
<1>6. ASSUME NEW t \in Threads, NEW r \in Reports, OutcomeArrives(t, r)
      PROVE  ArgInv'
  BY <1>6 DEF OutcomeArrives, Outcomes, Goto, ArgInv
<1>7. ASSUME NEW t \in Threads, HistoryRequested(t)
      PROVE  ArgInv'
  BY <1>7 DEF HistoryRequested, Goto, local, ArgInv
<1>8. ASSUME NEW t \in Threads, RouteBlocked(t)
      PROVE  ArgInv'
  BY <1>8 DEF RouteBlocked, Goto, ArgInv
<1>9. ASSUME NEW t \in Threads, RouteDecide(t)
      PROVE  ArgInv'
  BY <1>9 DEF RouteDecide, Goto, ArgInv
<1>10. ASSUME NEW t \in Threads, RouteCountRead(t)
       PROVE  ArgInv'
  BY <1>10 DEF RouteCountRead, Goto, ArgInv
<1>11. ASSUME NEW t \in Threads, RouteCountWrite(t)
       PROVE  ArgInv'
  BY <1>11 DEF RouteCountWrite, Return, Goto, ArgInv
<1>12. ASSUME NEW t \in Threads, RecordDecay(t)
       PROVE  ArgInv'
  BY <1>12 DEF RecordDecay, Goto, ArgInv
<1>13. ASSUME NEW t \in Threads, RecordCredit(t)
       PROVE  ArgInv'
  BY <1>13 DEF RecordCredit, Goto, ArgInv
<1>14. ASSUME NEW t \in Threads, AppendColumn(t)
       PROVE  ArgInv'
  BY <1>14 DEF AppendColumn, Goto, ArgInv
<1>15. ASSUME NEW t \in Threads, TrimColumn(t)
       PROVE  ArgInv'
  BY <1>15 DEF TrimColumn, Goto, ArgInv
<1>16. ASSUME NEW t \in Threads, RecordPublish(t)
       PROVE  ArgInv'
  BY <1>16 DEF RecordPublish, Return, Goto, ArgInv
<1>17. ASSUME NEW t \in Threads, CopyFirst(t)
       PROVE  ArgInv'
  BY <1>17 DEF CopyFirst, Goto, ArgInv
<1>18. ASSUME NEW t \in Threads, CopyNext(t)
       PROVE  ArgInv'
  BY <1>18 DEF CopyNext, ArgInv
<1>19. ASSUME NEW t \in Threads, CopyLast(t)
       PROVE  ArgInv'
  BY <1>19 DEF CopyLast, Return, Goto, ArgInv
<1> QED
  BY <1>1, <1>2, <1>3, <1>4, <1>5, <1>6, <1>7, <1>8, <1>9, <1>10, <1>11, <1>12, <1>13,
     <1>14, <1>15, <1>16, <1>17, <1>18, <1>19
     DEF Next, Arrive, Serve

\* A handler goes from one step of its code to another.
LEMMA StepsStep ==
  ASSUME NEW Steps, Steps = Waiting \cup Critical, pc \in [Threads -> Steps], [Next]_vars
  PROVE  pc' \in [Threads -> Steps]
<1>0. \A where \in {"idle", "blocked", "decide", "count", "update", "publish", "history",
                    "count_write", "credit", "append", "trim", "copy"} : where \in Steps
  BY DEF Waiting, Critical
<1> DEFINE Goes(t) == \/ pc' = pc
                     \/ \E where \in Steps : pc' = [pc EXCEPT ![t] = where]
<1>1. CASE UNCHANGED vars
  BY <1>1 DEF vars
<1>2. CASE Tick
  BY <1>2 DEF Tick
<1>3. CASE Quiescent
  BY <1>3 DEF Quiescent, vars
<1>4. ASSUME NEW t \in Threads, NEW i \in Issuers, RouteArrives(t, i)
      PROVE  Goes(t)
  BY <1>4, <1>0 DEF RouteArrives, Goto
<1>5. ASSUME NEW t \in Threads, NEW r \in Reports, OutcomeRejected(t, r)
      PROVE  Goes(t)
  BY <1>5, <1>0 DEF OutcomeRejected
<1>6. ASSUME NEW t \in Threads, NEW r \in Reports, OutcomeArrives(t, r)
      PROVE  Goes(t)
  BY <1>6, <1>0 DEF OutcomeArrives, Goto
<1>7. ASSUME NEW t \in Threads, HistoryRequested(t)
      PROVE  Goes(t)
  BY <1>7, <1>0 DEF HistoryRequested, Goto
<1>8. ASSUME NEW t \in Threads, RouteBlocked(t)
      PROVE  Goes(t)
  BY <1>8, <1>0 DEF RouteBlocked, Goto
<1>9. ASSUME NEW t \in Threads, RouteDecide(t)
      PROVE  Goes(t)
  BY <1>9, <1>0 DEF RouteDecide, Goto
<1>10. ASSUME NEW t \in Threads, RouteCountRead(t)
       PROVE  Goes(t)
  BY <1>10, <1>0 DEF RouteCountRead, Goto
<1>11. ASSUME NEW t \in Threads, RouteCountWrite(t)
       PROVE  Goes(t)
  BY <1>11, <1>0 DEF RouteCountWrite, Return, Goto
<1>12. ASSUME NEW t \in Threads, RecordDecay(t)
       PROVE  Goes(t)
  BY <1>12, <1>0 DEF RecordDecay, Goto
<1>13. ASSUME NEW t \in Threads, RecordCredit(t)
       PROVE  Goes(t)
  BY <1>13, <1>0 DEF RecordCredit, Goto
<1>14. ASSUME NEW t \in Threads, AppendColumn(t)
       PROVE  Goes(t)
  BY <1>14, <1>0 DEF AppendColumn, Goto
<1>15. ASSUME NEW t \in Threads, TrimColumn(t)
       PROVE  Goes(t)
  BY <1>15, <1>0 DEF TrimColumn, Goto
<1>16. ASSUME NEW t \in Threads, RecordPublish(t)
       PROVE  Goes(t)
  BY <1>16, <1>0 DEF RecordPublish, Return, Goto
<1>17. ASSUME NEW t \in Threads, CopyFirst(t)
       PROVE  Goes(t)
  BY <1>17, <1>0 DEF CopyFirst, Goto
<1>18. ASSUME NEW t \in Threads, CopyNext(t)
       PROVE  Goes(t)
  BY <1>18, <1>0 DEF CopyNext
<1>19. ASSUME NEW t \in Threads, CopyLast(t)
       PROVE  Goes(t)
  BY <1>19, <1>0 DEF CopyLast, Return, Goto
<1>20. ASSUME NEW t \in Threads, Goes(t)
       PROVE  pc' \in [Threads -> Steps]
  BY <1>20
<1> HIDE DEF Goes
<1> QED
  BY <1>1, <1>2, <1>3, <1>4, <1>5, <1>6, <1>7, <1>8, <1>9, <1>10, <1>11, <1>12, <1>13,
     <1>14, <1>15, <1>16, <1>17, <1>18, <1>19, <1>20
     DEF Next, Arrive, Serve

LEMMA TypeStep ==
  ASSUME StateInv, [Next]_vars
  PROVE  StateInv'
<1>0. ArgInv' /\ pc' \in [Threads -> Waiting \cup Critical]
  BY ArgStep, StepsStep DEF StateInv, TypeOK
<1> USE <1>0 DEF StateInv, TypeOK, Columns, TickCol, IssuerCol
<1>1. CASE UNCHANGED vars
  BY <1>1 DEF vars, local
<1>2. CASE Tick
  BY <1>2, ConstantsAssumption DEF Tick, local
<1>3. CASE Quiescent
  BY <1>3 DEF Quiescent, vars, local
<1>4. ASSUME NEW t \in Threads, NEW i \in Issuers, RouteArrives(t, i)
      PROVE  StateInv'
  BY <1>4, ConstantsAssumption DEF RouteArrives
<1>5. ASSUME NEW t \in Threads, NEW r \in Reports, OutcomeRejected(t, r)
      PROVE  StateInv'
  BY SMTT(30), <1>5, ConstantsAssumption DEF OutcomeRejected, local
<1>6. ASSUME NEW t \in Threads, NEW r \in Reports, OutcomeArrives(t, r)
      PROVE  StateInv'
  <2>1. r \in Outcomes
    BY <1>6 DEF OutcomeArrives, Outcomes
  <2>2. requests' \in 0..MaxRequests
    BY <1>6, ConstantsAssumption DEF OutcomeArrives
  <2> QED
    BY <1>6, <2>1, <2>2 DEF OutcomeArrives
<1>7. ASSUME NEW t \in Threads, HistoryRequested(t)
      PROVE  StateInv'
  BY <1>7, ConstantsAssumption DEF HistoryRequested, local
<1>8. ASSUME NEW t \in Threads, RouteBlocked(t)
      PROVE  StateInv'
  BY SMTT(30), <1>8 DEF RouteBlocked
<1>9. ASSUME NEW t \in Threads, RouteDecide(t)
      PROVE  StateInv'
  BY <1>9 DEF RouteDecide
<1>10. ASSUME NEW t \in Threads, RouteCountRead(t)
       PROVE  StateInv'
  BY <1>10 DEF RouteCountRead, Acquire
<1>11. ASSUME NEW t \in Threads, RouteCountWrite(t)
       PROVE  StateInv'
  BY SMTT(30), <1>11, ConstantsAssumption DEF RouteCountWrite, Return, Release
<1>12. ASSUME NEW t \in Threads, RecordDecay(t)
       PROVE  StateInv'
  BY <1>12 DEF RecordDecay, Acquire
<1>13. ASSUME NEW t \in Threads, RecordCredit(t)
       PROVE  StateInv'
  <2>1. arg[t] \in Outcomes
    BY <1>13 DEF RecordCredit, ArgInv
  <2>2. credits' \in Seq(Outcomes) /\ Len(credits) + 1 \in Nat
    BY <1>13, <2>1 DEF RecordCredit
  <2>3. tmp' \in [Threads -> Nat] /\ stamp' \in [Threads -> 0..MaxTick]
    BY <1>13, <2>2 DEF RecordCredit
  <2>4. col' \in [Threads -> Columns]
    BY <1>13 DEF RecordCredit
  <2> QED
    BY <1>13, <2>2, <2>3, <2>4 DEF RecordCredit
<1>17. ASSUME NEW t \in Threads, RecordPublish(t)
       PROVE  StateInv'
  BY SMTT(30), <1>17, ConstantsAssumption DEF RecordPublish, Return
<1>18. ASSUME NEW t \in Threads, CopyFirst(t)
       PROVE  StateInv'
  BY SMTT(30), <1>18 DEF CopyFirst, Acquire
<1>19. ASSUME NEW t \in Threads, CopyNext(t)
       PROVE  StateInv'
  <2>1. col' \in [Threads -> Columns]
    <3> HIDE <1>0 DEF StateInv, TypeOK
    <3>1. col \in [Threads -> Columns]
      BY DEF StateInv, TypeOK
    <3>2. col[t] < 5 /\ col' = [col EXCEPT ![t] = @ + 1]
      BY <1>19 DEF CopyNext
    <3> QED
      BY <3>1, <3>2
  <2> QED
    BY <1>19, <2>1 DEF CopyNext
<1>20. ASSUME NEW t \in Threads, CopyLast(t)
       PROVE  StateInv'
  BY SMTT(30), <1>20, ConstantsAssumption DEF CopyLast, Return, Release
<1>14. ASSUME NEW t \in Threads, AppendColumn(t)
       PROVE  StateInv'
  <2>1. arg[t] \in Outcomes /\ stamp[t] \in 0..MaxTick /\ col[t] \in Columns
    BY <1>14 DEF AppendColumn, ArgInv
  <2>2. /\ hist' \in Table
        /\ hist'[TickCol] \in Seq(0..MaxTick)
        /\ hist'[IssuerCol] \in Seq(Issuers)
    <3> HIDE DEF StateInv, TypeOK, Columns, TickCol, IssuerCol
    <3> DEFINE c == col[t]
               v == Row(arg[t], stamp[t])[c]
    <3>1. hist' = [hist EXCEPT ![c] = Append(@, v)]
      BY <1>14 DEF AppendColumn
    <3>2. /\ v \in Cell
          /\ c = TickCol => v \in 0..MaxTick
          /\ c = IssuerCol => v \in Issuers
      BY <2>1, RowType
    <3>3. /\ hist \in [Columns -> Seq(Cell)]
          /\ hist[TickCol] \in Seq(0..MaxTick)
          /\ hist[IssuerCol] \in Seq(Issuers)
      BY DEF StateInv, TypeOK, Table
    <3>4. c \in Columns /\ TickCol \in Columns /\ IssuerCol \in Columns
      BY <2>1 DEF Columns, TickCol, IssuerCol
    <3> HIDE DEF c, v
    <3>5. hist' \in [Columns -> Seq(Cell)]
      BY <3>1, <3>2, <3>3, <3>4, AppendToColumn
    <3>6. hist'[TickCol] \in Seq(0..MaxTick)
      <4> DEFINE U == 0..MaxTick
      <4>1. hist[TickCol] \in Seq(U) /\ (c = TickCol => v \in U)
        BY <3>2, <3>3
      <4> HIDE DEF U
      <4>2. hist'[TickCol] \in Seq(U)
        BY <3>1, <3>2, <3>3, <3>4, <4>1, AppendToColumn
      <4> QED
        BY <4>2 DEF U
    <3>7. hist'[IssuerCol] \in Seq(Issuers)
      BY <3>1, <3>2, <3>3, <3>4, AppendToColumn
    <3> QED
      BY <3>5, <3>6, <3>7 DEF Table
  <2>3. DOMAIN hist' = Columns
    BY <2>2 DEF Table
  <2>4. col' \in [Threads -> Columns] /\ lock' \in Threads \cup {Nobody}
    <3> HIDE DEF StateInv, TypeOK
    <3>1. col[t] < 5 => col[t] + 1 \in Columns
      BY <2>1
    <3>2. \/ col[t] < 5 /\ col' = [col EXCEPT ![t] = col[t] + 1] /\ lock' = lock
          \/ col' = [col EXCEPT ![t] = 1] /\ lock' \in {lock, Nobody}
      BY <1>14 DEF AppendColumn, Release
    <3>3. col \in [Threads -> Columns] /\ lock \in Threads \cup {Nobody}
      BY DEF StateInv, TypeOK
    <3> QED
      BY <3>1, <3>2, <3>3
  <2>5. drop' \in [Threads -> Nat]
    <3>1. Len(hist[TickCol]) - HistoryLimit \in Int
      BY ConstantsAssumption
    <3>2. \/ drop' = drop
          \/ /\ Len(hist[TickCol]) - HistoryLimit > 0
             /\ drop' = [drop EXCEPT ![t] = Len(hist[TickCol]) - HistoryLimit]
      BY <1>14 DEF AppendColumn
    <3> HIDE DEF StateInv
    <3>3. drop \in [Threads -> Nat]
      BY DEF StateInv, TypeOK
    <3> HIDE DEF TypeOK
    <3> QED
      BY <3>1, <3>2, <3>3
  <2> QED
    BY <1>14, <2>2, <2>3, <2>4, <2>5 DEF AppendColumn
<1>15. ASSUME NEW t \in Threads, TrimColumn(t)
       PROVE  StateInv'
  <2>1. drop[t] \in Nat /\ col[t] \in Columns
    OBVIOUS
  <2>2. /\ hist' \in Table
        /\ hist'[TickCol] \in Seq(0..MaxTick)
        /\ hist'[IssuerCol] \in Seq(Issuers)
    <3> HIDE DEF StateInv, TypeOK, Columns, TickCol, IssuerCol
    <3>1. hist' = [hist EXCEPT ![col[t]] = DropFirst(@, drop[t])]
      BY <1>15 DEF TrimColumn
    <3>2. /\ hist \in [Columns -> Seq(Cell)]
          /\ hist[TickCol] \in Seq(0..MaxTick)
          /\ hist[IssuerCol] \in Seq(Issuers)
      BY DEF StateInv, TypeOK, Table
    <3>3. TickCol \in Columns /\ IssuerCol \in Columns
      BY DEF Columns, TickCol, IssuerCol
    <3>4. hist' \in [Columns -> Seq(Cell)] /\ hist'[TickCol] \in Seq(0..MaxTick)
      BY <2>1, <3>1, <3>2, <3>3, DropFromColumn
    <3>5. hist'[IssuerCol] \in Seq(Issuers)
      BY <2>1, <3>1, <3>2, <3>3, DropFromColumn
    <3> QED
      BY <3>4, <3>5 DEF Table
  <2>3. DOMAIN hist' = Columns
    BY <2>2 DEF Table
  <2>4. col' \in [Threads -> Columns] /\ lock' \in Threads \cup {Nobody}
    <3> HIDE DEF StateInv, TypeOK
    <3>1. col[t] < 5 => col[t] + 1 \in Columns
      BY <2>1
    <3>2. \/ col[t] < 5 /\ col' = [col EXCEPT ![t] = col[t] + 1] /\ lock' = lock
          \/ col' = [col EXCEPT ![t] = 1] /\ lock' = Nobody
      BY <1>15 DEF TrimColumn, Release
    <3>3. col \in [Threads -> Columns] /\ lock \in Threads \cup {Nobody}
      BY DEF StateInv, TypeOK
    <3> QED
      BY <3>1, <3>2, <3>3
  <2> QED
    BY <1>15, <2>2, <2>3, <2>4 DEF TrimColumn
<1> QED
  BY <1>1, <1>2, <1>3, <1>4, <1>5, <1>6, <1>7, <1>8, <1>9, <1>10, <1>11, <1>12, <1>13,
     <1>14, <1>15, <1>17, <1>18, <1>19, <1>20
     DEF Next, Arrive, Serve

LEMMA LockStep ==
  ASSUME StateInv, LockInv, [Next]_vars
  PROVE  LockInv'
<1>0. DOMAIN pc = Threads /\ Nobody \notin Threads
  BY ConstantsAssumption DEF StateInv, TypeOK
<1>1. CASE UNCHANGED vars
  BY <1>1, <1>0 DEF vars, local, LockInv, Critical
<1>2. CASE Tick
  BY <1>2, <1>0 DEF Tick, local, LockInv, Critical
<1>3. CASE Quiescent
  BY <1>3, <1>0 DEF Quiescent, vars, local, LockInv, Critical
<1>4. ASSUME NEW t \in Threads, NEW i \in Issuers, RouteArrives(t, i)
      PROVE  LockInv'
  BY <1>4, <1>0 DEF RouteArrives, Goto, LockInv, Critical
<1>5. ASSUME NEW t \in Threads, NEW r \in Reports, OutcomeRejected(t, r)
      PROVE  LockInv'
  BY <1>5, <1>0 DEF OutcomeRejected, local, LockInv, Critical
<1>6. ASSUME NEW t \in Threads, NEW r \in Reports, OutcomeArrives(t, r)
      PROVE  LockInv'
  BY <1>6, <1>0 DEF OutcomeArrives, Goto, LockInv, Critical
<1>7. ASSUME NEW t \in Threads, HistoryRequested(t)
      PROVE  LockInv'
  BY <1>7, <1>0 DEF HistoryRequested, Goto, local, LockInv, Critical
<1>8. ASSUME NEW t \in Threads, RouteBlocked(t)
      PROVE  LockInv'
  BY <1>8, <1>0 DEF RouteBlocked, Goto, LockInv, Critical
<1>9. ASSUME NEW t \in Threads, RouteDecide(t)
      PROVE  LockInv'
  BY <1>9, <1>0 DEF RouteDecide, Goto, LockInv, Critical
<1>10. ASSUME NEW t \in Threads, RouteCountRead(t)
      PROVE  LockInv'
  BY <1>10, <1>0 DEF RouteCountRead, Goto, Acquire, LockInv, Critical
<1>11. ASSUME NEW t \in Threads, RouteCountWrite(t)
      PROVE  LockInv'
  BY <1>11, <1>0 DEF RouteCountWrite, Return, Goto, Release, LockInv, Critical
<1>12. ASSUME NEW t \in Threads, RecordDecay(t)
      PROVE  LockInv'
  BY <1>12, <1>0 DEF RecordDecay, Goto, Acquire, LockInv, Critical
<1>13. ASSUME NEW t \in Threads, RecordCredit(t)
      PROVE  LockInv'
  BY <1>13, <1>0 DEF RecordCredit, Goto, LockInv, Critical
<1>14. ASSUME NEW t \in Threads, AppendColumn(t)
      PROVE  LockInv'
  BY <1>14, <1>0 DEF AppendColumn, Goto, Release, LockInv, Critical
<1>15. ASSUME NEW t \in Threads, TrimColumn(t)
      PROVE  LockInv'
  BY <1>15, <1>0 DEF TrimColumn, Goto, Release, LockInv, Critical
<1>16. ASSUME NEW t \in Threads, RecordPublish(t)
      PROVE  LockInv'
  BY <1>16, <1>0 DEF RecordPublish, Return, Goto, LockInv, Critical
<1>17. ASSUME NEW t \in Threads, CopyFirst(t)
      PROVE  LockInv'
  BY <1>17, <1>0 DEF CopyFirst, Goto, Acquire, LockInv, Critical
<1>18. ASSUME NEW t \in Threads, CopyNext(t)
      PROVE  LockInv'
  BY <1>18, <1>0 DEF CopyNext, LockInv, Critical
<1>19. ASSUME NEW t \in Threads, CopyLast(t)
      PROVE  LockInv'
  BY <1>19, <1>0 DEF CopyLast, Return, Goto, Release, LockInv, Critical
<1> QED
  BY <1>1, <1>2, <1>3, <1>4, <1>5, <1>6, <1>7, <1>8, <1>9, <1>10, <1>11, <1>12, <1>13,
     <1>14, <1>15, <1>16, <1>17, <1>18, <1>19 DEF Next, Arrive, Serve

\* Two threads are never inside critical sections together.
LEMMA Alone ==
  ASSUME LockInv, NEW t \in Threads, pc[t] \in Critical,
         NEW u \in Threads, pc[u] \in Critical
  PROVE  u = t
BY DEF LockInv

LEMMA CountStep ==
  ASSUME StateInv, LockInv, CountInv, [Next]_vars
  PROVE  CountInv'
<1>0. DOMAIN pc = Threads /\ DOMAIN tmp = Threads /\ decisions \in Nat /\ answered \in Nat
  BY DEF StateInv, TypeOK
<1>1. CASE UNCHANGED vars
  BY <1>1, <1>0 DEF vars, local, CountInv, NoDecisionLost, LockInv, Critical
<1>2. CASE Tick
  BY <1>2, <1>0 DEF Tick, local, CountInv, NoDecisionLost, LockInv, Critical
<1>3. CASE Quiescent
  BY <1>3, <1>0 DEF Quiescent, vars, local, CountInv, NoDecisionLost, LockInv, Critical
<1>4. ASSUME NEW t \in Threads, NEW i \in Issuers, RouteArrives(t, i)
      PROVE  CountInv'
  BY <1>4, <1>0 DEF RouteArrives, Goto, CountInv, NoDecisionLost, LockInv, Critical
<1>5. ASSUME NEW t \in Threads, NEW r \in Reports, OutcomeRejected(t, r)
      PROVE  CountInv'
  BY <1>5, <1>0 DEF OutcomeRejected, local, CountInv, NoDecisionLost, LockInv, Critical
<1>6. ASSUME NEW t \in Threads, NEW r \in Reports, OutcomeArrives(t, r)
      PROVE  CountInv'
  BY <1>6, <1>0 DEF OutcomeArrives, Goto, CountInv, NoDecisionLost, LockInv, Critical
<1>7. ASSUME NEW t \in Threads, HistoryRequested(t)
      PROVE  CountInv'
  BY <1>7, <1>0 DEF HistoryRequested, Goto, local, CountInv, NoDecisionLost, LockInv,
     Critical
<1>8. ASSUME NEW t \in Threads, RouteBlocked(t)
      PROVE  CountInv'
  BY <1>8, <1>0 DEF RouteBlocked, Goto, CountInv, NoDecisionLost, LockInv, Critical
<1>9. ASSUME NEW t \in Threads, RouteDecide(t)
      PROVE  CountInv'
  BY <1>9, <1>0 DEF RouteDecide, Goto, CountInv, NoDecisionLost, LockInv, Critical
<1>10. ASSUME NEW t \in Threads, RouteCountRead(t)
      PROVE  CountInv'
  BY <1>10, <1>0 DEF RouteCountRead, Goto, Acquire, CountInv, NoDecisionLost, LockInv,
     Critical
<1>11. ASSUME NEW t \in Threads, RouteCountWrite(t)
      PROVE  CountInv'
  BY <1>11, <1>0 DEF RouteCountWrite, Return, Goto, Release, CountInv, NoDecisionLost,
     LockInv, Critical
<1>12. ASSUME NEW t \in Threads, RecordDecay(t)
      PROVE  CountInv'
  BY <1>12, <1>0 DEF RecordDecay, Goto, Acquire, CountInv, NoDecisionLost, LockInv,
     Critical
<1>13. ASSUME NEW t \in Threads, RecordCredit(t)
      PROVE  CountInv'
  BY <1>13, <1>0 DEF RecordCredit, Goto, CountInv, NoDecisionLost, LockInv, Critical
<1>14. ASSUME NEW t \in Threads, AppendColumn(t)
      PROVE  CountInv'
  BY <1>14, <1>0 DEF AppendColumn, Goto, Release, CountInv, NoDecisionLost, LockInv,
     Critical
<1>15. ASSUME NEW t \in Threads, TrimColumn(t)
      PROVE  CountInv'
  BY <1>15, <1>0 DEF TrimColumn, Goto, Release, CountInv, NoDecisionLost, LockInv,
     Critical
<1>16. ASSUME NEW t \in Threads, RecordPublish(t)
      PROVE  CountInv'
  BY <1>16, <1>0 DEF RecordPublish, Return, Goto, CountInv, NoDecisionLost, LockInv,
     Critical
<1>17. ASSUME NEW t \in Threads, CopyFirst(t)
      PROVE  CountInv'
  BY <1>17, <1>0 DEF CopyFirst, Goto, Acquire, CountInv, NoDecisionLost, LockInv,
     Critical
<1>18. ASSUME NEW t \in Threads, CopyNext(t)
      PROVE  CountInv'
  BY <1>18, <1>0 DEF CopyNext, CountInv, NoDecisionLost, LockInv, Critical
<1>19. ASSUME NEW t \in Threads, CopyLast(t)
      PROVE  CountInv'
  BY <1>19, <1>0 DEF CopyLast, Return, Goto, Release, CountInv, NoDecisionLost,
     LockInv, Critical
<1> QED
  BY <1>1, <1>2, <1>3, <1>4, <1>5, <1>6, <1>7, <1>8, <1>9, <1>10, <1>11, <1>12, <1>13,
     <1>14, <1>15, <1>16, <1>17, <1>18, <1>19 DEF Next, Arrive, Serve

LEMMA PosteriorStep ==
  ASSUME StateInv, LockInv, PosteriorInv, [Next]_vars
  PROVE  PosteriorInv'
<1>0. /\ DOMAIN pc = Threads /\ decays \in Nat /\ credits \in Seq(Outcomes)
      /\ Nobody \notin Threads
  BY ConstantsAssumption DEF StateInv, TypeOK
<1>1. CASE UNCHANGED vars
  BY <1>1, <1>0 DEF vars, local, PosteriorInv, DecisionsSeeWholeUpdates, LockInv,
     Critical
<1>2. CASE Tick
  BY <1>2, <1>0 DEF Tick, local, PosteriorInv, DecisionsSeeWholeUpdates, LockInv,
     Critical
<1>3. CASE Quiescent
  BY <1>3, <1>0 DEF Quiescent, vars, local, PosteriorInv, DecisionsSeeWholeUpdates,
     LockInv, Critical
<1>4. ASSUME NEW t \in Threads, NEW i \in Issuers, RouteArrives(t, i)
      PROVE  PosteriorInv'
  BY <1>4, <1>0 DEF RouteArrives, Goto, PosteriorInv, DecisionsSeeWholeUpdates,
     LockInv, Critical
<1>5. ASSUME NEW t \in Threads, NEW r \in Reports, OutcomeRejected(t, r)
      PROVE  PosteriorInv'
  BY <1>5, <1>0 DEF OutcomeRejected, local, PosteriorInv, DecisionsSeeWholeUpdates,
     LockInv, Critical
<1>6. ASSUME NEW t \in Threads, NEW r \in Reports, OutcomeArrives(t, r)
      PROVE  PosteriorInv'
  BY <1>6, <1>0 DEF OutcomeArrives, Goto, PosteriorInv, DecisionsSeeWholeUpdates,
     LockInv, Critical
<1>7. ASSUME NEW t \in Threads, HistoryRequested(t)
      PROVE  PosteriorInv'
  BY <1>7, <1>0 DEF HistoryRequested, Goto, local, PosteriorInv,
     DecisionsSeeWholeUpdates, LockInv, Critical
<1>8. ASSUME NEW t \in Threads, RouteBlocked(t)
      PROVE  PosteriorInv'
  BY <1>8, <1>0 DEF RouteBlocked, Goto, PosteriorInv, DecisionsSeeWholeUpdates,
     LockInv, Critical
<1>9. ASSUME NEW t \in Threads, RouteDecide(t)
      PROVE  PosteriorInv'
  BY <1>9, <1>0 DEF RouteDecide, Goto, PosteriorInv, DecisionsSeeWholeUpdates,
     LockInv, Critical
<1>10. ASSUME NEW t \in Threads, RouteCountRead(t)
      PROVE  PosteriorInv'
  BY <1>10, <1>0 DEF RouteCountRead, Goto, Acquire, PosteriorInv,
     DecisionsSeeWholeUpdates, LockInv, Critical
<1>11. ASSUME NEW t \in Threads, RouteCountWrite(t)
      PROVE  PosteriorInv'
  BY <1>11, <1>0 DEF RouteCountWrite, Return, Goto, Release, PosteriorInv,
     DecisionsSeeWholeUpdates, LockInv, Critical
<1>12. ASSUME NEW t \in Threads, RecordDecay(t)
      PROVE  PosteriorInv'
  BY <1>12, <1>0 DEF RecordDecay, Goto, Acquire, PosteriorInv,
     DecisionsSeeWholeUpdates, LockInv, Critical
<1>13. ASSUME NEW t \in Threads, RecordCredit(t)
      PROVE  PosteriorInv'
  BY <1>13, <1>0 DEF RecordCredit, Goto, PosteriorInv, DecisionsSeeWholeUpdates,
     LockInv, Critical
<1>14. ASSUME NEW t \in Threads, AppendColumn(t)
      PROVE  PosteriorInv'
  BY <1>14, <1>0 DEF AppendColumn, Goto, Release, PosteriorInv,
     DecisionsSeeWholeUpdates, LockInv, Critical
<1>15. ASSUME NEW t \in Threads, TrimColumn(t)
      PROVE  PosteriorInv'
  BY <1>15, <1>0 DEF TrimColumn, Goto, Release, PosteriorInv,
     DecisionsSeeWholeUpdates, LockInv, Critical
<1>16. ASSUME NEW t \in Threads, RecordPublish(t)
      PROVE  PosteriorInv'
  BY <1>16, <1>0 DEF RecordPublish, Return, Goto, PosteriorInv,
     DecisionsSeeWholeUpdates, LockInv, Critical
<1>17. ASSUME NEW t \in Threads, CopyFirst(t)
      PROVE  PosteriorInv'
  BY <1>17, <1>0 DEF CopyFirst, Goto, Acquire, PosteriorInv, DecisionsSeeWholeUpdates,
     LockInv, Critical
<1>18. ASSUME NEW t \in Threads, CopyNext(t)
      PROVE  PosteriorInv'
  BY <1>18, <1>0 DEF CopyNext, PosteriorInv, DecisionsSeeWholeUpdates, LockInv, Critical
<1>19. ASSUME NEW t \in Threads, CopyLast(t)
      PROVE  PosteriorInv'
  BY <1>19, <1>0 DEF CopyLast, Return, Goto, Release, PosteriorInv,
     DecisionsSeeWholeUpdates, LockInv, Critical
<1> QED
  BY <1>1, <1>2, <1>3, <1>4, <1>5, <1>6, <1>7, <1>8, <1>9, <1>10, <1>11, <1>12, <1>13,
     <1>14, <1>15, <1>16, <1>17, <1>18, <1>19 DEF Next, Arrive, Serve

LEMMA ColumnsStep ==
  ASSUME StateInv, LockInv, ColumnsInv, [Next]_vars
  PROVE  ColumnsInv'
<1>0. /\ DOMAIN pc = Threads /\ DOMAIN col = Threads /\ DOMAIN drop = Threads
      /\ \A t \in Threads : col[t] \in Columns
      /\ hist \in [Columns -> Seq(Cell)]
      /\ Nobody \notin Threads /\ HistoryLimit \in Nat
  BY ConstantsAssumption DEF StateInv, TypeOK, Table
<1>1. CASE UNCHANGED vars
  BY <1>1, <1>0 DEF vars, local, ColumnsInv, LockInv, Critical
<1>2. CASE Tick
  BY <1>2, <1>0 DEF Tick, local, ColumnsInv, LockInv, Critical
<1>3. CASE Quiescent
  BY <1>3, <1>0 DEF Quiescent, vars, local, ColumnsInv, LockInv, Critical
<1>4. ASSUME NEW t \in Threads, NEW i \in Issuers, RouteArrives(t, i)
      PROVE  ColumnsInv'
  BY <1>4, <1>0 DEF RouteArrives, Goto, ColumnsInv, LockInv, Critical
<1>5. ASSUME NEW t \in Threads, NEW r \in Reports, OutcomeRejected(t, r)
      PROVE  ColumnsInv'
  BY <1>5, <1>0 DEF OutcomeRejected, local, ColumnsInv, LockInv, Critical
<1>6. ASSUME NEW t \in Threads, NEW r \in Reports, OutcomeArrives(t, r)
      PROVE  ColumnsInv'
  BY <1>6, <1>0 DEF OutcomeArrives, Goto, ColumnsInv, LockInv, Critical
<1>7. ASSUME NEW t \in Threads, HistoryRequested(t)
      PROVE  ColumnsInv'
  BY <1>7, <1>0 DEF HistoryRequested, Goto, local, ColumnsInv, LockInv, Critical
<1>8. ASSUME NEW t \in Threads, RouteBlocked(t)
      PROVE  ColumnsInv'
  BY <1>8, <1>0 DEF RouteBlocked, Goto, ColumnsInv, LockInv, Critical
<1>9. ASSUME NEW t \in Threads, RouteDecide(t)
      PROVE  ColumnsInv'
  BY <1>9, <1>0 DEF RouteDecide, Goto, ColumnsInv, LockInv, Critical
<1>10. ASSUME NEW t \in Threads, RouteCountRead(t)
      PROVE  ColumnsInv'
  BY <1>10, <1>0 DEF RouteCountRead, Goto, Acquire, ColumnsInv, LockInv, Critical
<1>11. ASSUME NEW t \in Threads, RouteCountWrite(t)
      PROVE  ColumnsInv'
  BY <1>11, <1>0 DEF RouteCountWrite, Return, Goto, Release, ColumnsInv, LockInv,
     Critical
<1>12. ASSUME NEW t \in Threads, RecordDecay(t)
      PROVE  ColumnsInv'
  BY <1>12, <1>0 DEF RecordDecay, Goto, Acquire, ColumnsInv, LockInv, Critical
<1>13. ASSUME NEW t \in Threads, RecordCredit(t)
      PROVE  ColumnsInv'
  <2>1. \A u \in Threads : pc[u] \in {"append", "trim"} => u = t
    BY <1>13, Alone DEF RecordCredit, Critical
  <2>2. PICK n \in 0..HistoryLimit : \A c \in Columns : Len(hist[c]) = n
    BY <1>13, <2>1 DEF RecordCredit, ColumnsInv
  <2>3. \A u \in Threads : pc'[u] \in {"append", "trim"} => u = t /\ pc'[u] = "append"
    BY <1>13, <1>0, <2>1 DEF RecordCredit, Goto
  <2>4. pc'[t] = "append" /\ col'[t] = 1 /\ hist' = hist
    BY <1>13, <1>0 DEF RecordCredit, Goto
  <2>5. \A c \in Columns : Len(hist'[c]) = IF c < col'[t] THEN n + 1 ELSE n
    BY <2>2, <2>4 DEF Columns
  <2> QED
    BY <2>3, <2>4, <2>5 DEF ColumnsInv
<1>14. ASSUME NEW t \in Threads, AppendColumn(t)
      PROVE  ColumnsInv'
  <2>1. pc[t] = "append" /\ col[t] \in Columns
    BY <1>14, <1>0 DEF AppendColumn
  <2>2. \A u \in Threads : pc[u] \in {"append", "trim"} => u = t
    BY <2>1, Alone DEF Critical
  <2>3. PICK n \in 0..HistoryLimit :
          \A c \in Columns : Len(hist[c]) = IF c < col[t] THEN n + 1 ELSE n
    BY <2>1 DEF ColumnsInv
  <2>4. \A c \in Columns : Len(hist'[c]) = IF c < col[t] + 1 THEN n + 1 ELSE n
    <3>1. hist' = [hist EXCEPT ![col[t]] = Append(@, Row(arg[t], stamp[t])[col[t]])]
      BY <1>14 DEF AppendColumn
    <3>2. Row(arg[t], stamp[t])[col[t]] \in Cell
      BY <2>1, RowType DEF StateInv, ArgInv, TypeOK
    <3>3. \A c \in Columns : Len(hist'[c]) = IF c = col[t] THEN Len(hist[c]) + 1
                                                           ELSE Len(hist[c])
      BY <1>0, <2>1, <3>1, <3>2, AppendRows
    <3>4. ASSUME NEW c \in Columns
          PROVE  Len(hist'[c]) = IF c < col[t] + 1 THEN n + 1 ELSE n
      <4>1. c \in Int /\ col[t] \in Int /\ n \in Int
        BY <2>1 DEF Columns
      <4>2. CASE c = col[t]
        BY <2>3, <3>3, <4>1, <4>2
      <4>3. CASE c # col[t]
        BY <2>3, <3>3, <4>1, <4>3
      <4> QED
        BY <4>2, <4>3
    <3> QED
      BY <3>4
  <2>5. CASE col[t] < IssuerCol
    <3>1. pc' = pc /\ col'[t] = col[t] + 1
      BY <1>14, <1>0, <2>1, <2>5 DEF AppendColumn, Columns, IssuerCol
    <3> QED
      BY <2>1, <2>2, <2>4, <3>1 DEF ColumnsInv
  <2>6. CASE col[t] = IssuerCol
    <3>1. \A c \in Columns : Len(hist'[c]) = n + 1
      BY <2>4, <2>6 DEF Columns, IssuerCol
    <3>2. Len(hist[TickCol]) = n + 1
      BY <2>3, <2>6 DEF Columns, TickCol, IssuerCol
    <3>3. col'[t] = 1
      BY <1>14, <1>0, <2>6 DEF AppendColumn, IssuerCol
    <3>4. CASE n + 1 > HistoryLimit
      <4>1. n = HistoryLimit
        BY <1>0, <3>4
      <4>2. pc' = [pc EXCEPT ![t] = "trim"] /\ drop'[t] = 1
        BY <1>14, <1>0, <2>6, <3>2, <4>1 DEF AppendColumn, Goto, IssuerCol
      <4>3. \A u \in Threads : pc'[u] \in {"append", "trim"} => u = t /\ pc'[u] = "trim"
        BY <1>0, <2>2, <4>2
      <4>4. \A c \in Columns : Len(hist'[c]) = IF c < col'[t] THEN HistoryLimit
                                                              ELSE HistoryLimit + 1
        BY <3>1, <3>3, <4>1 DEF Columns
      <4>5. pc'[t] = "trim"
        BY <1>0, <4>2
      <4> QED
        BY <4>2, <4>3, <4>4, <4>5 DEF ColumnsInv
    <3>5. CASE ~(n + 1 > HistoryLimit)
      <4>1. pc' = [pc EXCEPT ![t] = "publish"]
        BY <1>14, <1>0, <2>6, <3>2, <3>5 DEF AppendColumn, Goto, IssuerCol
      <4>2. \A u \in Threads : pc'[u] \notin {"append", "trim"}
        BY <1>0, <2>2, <4>1
      <4>3. n + 1 \in 0..HistoryLimit
        BY <1>0, <3>5
      <4> QED
        BY <3>1, <4>2, <4>3 DEF ColumnsInv
    <3> QED
      BY <3>4, <3>5
  <2> QED
    BY <2>1, <2>5, <2>6 DEF Columns, IssuerCol
<1>15. ASSUME NEW t \in Threads, TrimColumn(t)
      PROVE  ColumnsInv'
  <2>1. pc[t] = "trim" /\ col[t] \in Columns
    BY <1>15, <1>0 DEF TrimColumn
  <2>2. \A u \in Threads : pc[u] \in {"append", "trim"} => u = t
    BY <2>1, Alone DEF Critical
  <2>3. /\ drop[t] = 1
        /\ \A c \in Columns :
             Len(hist[c]) = IF c < col[t] THEN HistoryLimit ELSE HistoryLimit + 1
    BY <2>1 DEF ColumnsInv
  <2>4. \A c \in Columns :
          Len(hist'[c]) = IF c < col[t] + 1 THEN HistoryLimit ELSE HistoryLimit + 1
    <3>1. hist' = [hist EXCEPT ![col[t]] = DropFirst(@, 1)]
      BY <1>15, <2>3 DEF TrimColumn
    <3>2. Len(hist[col[t]]) >= 1
      BY <1>0, <2>1, <2>3 DEF Columns
    <3>3. \A c \in Columns : Len(hist'[c]) = IF c = col[t] THEN Len(hist[c]) - 1
                                                           ELSE Len(hist[c])
      BY <1>0, <2>1, <3>1, <3>2, DropRows
    <3>4. ASSUME NEW c \in Columns
          PROVE  Len(hist'[c]) = IF c < col[t] + 1 THEN HistoryLimit ELSE HistoryLimit + 1
      <4>1. c \in Int /\ col[t] \in Int /\ HistoryLimit \in Int
        BY <1>0, <2>1 DEF Columns
      <4>2. CASE c = col[t]
        BY <2>3, <3>3, <4>1, <4>2
      <4>3. CASE c # col[t]
        BY <2>3, <3>3, <4>1, <4>3
      <4> QED
        BY <4>2, <4>3
    <3> QED
      BY <3>4
  <2>5. CASE col[t] < IssuerCol
    <3>1. pc' = pc /\ col'[t] = col[t] + 1 /\ drop' = drop
      BY <1>15, <1>0, <2>1, <2>5 DEF TrimColumn, Columns, IssuerCol
    <3> QED
      BY <2>1, <2>2, <2>3, <2>4, <3>1 DEF ColumnsInv
  <2>6. CASE col[t] = IssuerCol
    <3>1. \A c \in Columns : Len(hist'[c]) = HistoryLimit
      BY <2>4, <2>6 DEF Columns, IssuerCol
    <3>2. pc' = [pc EXCEPT ![t] = "publish"]
      BY <1>15, <2>1, <2>6 DEF TrimColumn, Goto, Columns, IssuerCol
    <3>3. \A u \in Threads : pc'[u] \notin {"append", "trim"}
      BY <1>0, <2>2, <3>2
    <3>4. HistoryLimit \in 0..HistoryLimit
      BY <1>0
    <3> QED
      BY <3>1, <3>3, <3>4 DEF ColumnsInv
  <2> QED
    BY <2>1, <2>5, <2>6 DEF Columns, IssuerCol
<1>16. ASSUME NEW t \in Threads, RecordPublish(t)
      PROVE  ColumnsInv'
  BY <1>16, <1>0 DEF RecordPublish, Return, Goto, ColumnsInv, LockInv, Critical
<1>17. ASSUME NEW t \in Threads, CopyFirst(t)
      PROVE  ColumnsInv'
  BY <1>17, <1>0 DEF CopyFirst, Goto, Acquire, ColumnsInv, LockInv, Critical
<1>18. ASSUME NEW t \in Threads, CopyNext(t)
      PROVE  ColumnsInv'
  BY <1>18, <1>0 DEF CopyNext, ColumnsInv, LockInv, Critical
<1>19. ASSUME NEW t \in Threads, CopyLast(t)
      PROVE  ColumnsInv'
  BY <1>19, <1>0 DEF CopyLast, Return, Goto, Release, ColumnsInv, LockInv, Critical
<1> QED
  BY <1>1, <1>2, <1>3, <1>4, <1>5, <1>6, <1>7, <1>8, <1>9, <1>10, <1>11, <1>12, <1>13,
     <1>14, <1>15, <1>16, <1>17, <1>18, <1>19 DEF Next, Arrive, Serve

LEMMA StampStep ==
  ASSUME StateInv, LockInv, ColumnsInv, StampInv, [Next]_vars
  PROVE  StampInv'
<1>0. /\ DOMAIN pc = Threads /\ DOMAIN col = Threads /\ DOMAIN stamp = Threads
      /\ hist \in [Columns -> Seq(Cell)] /\ hist[TickCol] \in Seq(0..MaxTick)
      /\ \A t \in Threads : col[t] \in Columns /\ stamp[t] \in 0..MaxTick
      /\ Nobody \notin Threads /\ HistoryLimit \in Nat
      /\ tick \in Nat /\ MaxTick \in Nat
  BY ConstantsAssumption DEF StateInv, TypeOK, Table
<1>1. CASE UNCHANGED vars
  BY <1>1, <1>0 DEF vars, local, StampInv, Sorted, LockInv, Critical
<1>2. CASE Tick
  BY <1>2, <1>0 DEF Tick, local, StampInv, Sorted, LockInv, Critical
<1>3. CASE Quiescent
  BY <1>3, <1>0 DEF Quiescent, vars, local, StampInv, Sorted, LockInv, Critical
<1>4. ASSUME NEW t \in Threads, NEW i \in Issuers, RouteArrives(t, i)
      PROVE  StampInv'
  BY <1>4, <1>0 DEF RouteArrives, Goto, StampInv, Sorted, LockInv, Critical
<1>5. ASSUME NEW t \in Threads, NEW r \in Reports, OutcomeRejected(t, r)
      PROVE  StampInv'
  BY <1>5, <1>0 DEF OutcomeRejected, local, StampInv, Sorted, LockInv, Critical
<1>6. ASSUME NEW t \in Threads, NEW r \in Reports, OutcomeArrives(t, r)
      PROVE  StampInv'
  BY <1>6, <1>0 DEF OutcomeArrives, Goto, StampInv, Sorted, LockInv, Critical
<1>7. ASSUME NEW t \in Threads, HistoryRequested(t)
      PROVE  StampInv'
  BY <1>7, <1>0 DEF HistoryRequested, Goto, local, StampInv, Sorted, LockInv, Critical
<1>8. ASSUME NEW t \in Threads, RouteBlocked(t)
      PROVE  StampInv'
  BY <1>8, <1>0 DEF RouteBlocked, Goto, StampInv, Sorted, LockInv, Critical
<1>9. ASSUME NEW t \in Threads, RouteDecide(t)
      PROVE  StampInv'
  BY <1>9, <1>0 DEF RouteDecide, Goto, StampInv, Sorted, LockInv, Critical
<1>10. ASSUME NEW t \in Threads, RouteCountRead(t)
      PROVE  StampInv'
  BY <1>10, <1>0 DEF RouteCountRead, Goto, Acquire, StampInv, Sorted, LockInv, Critical
<1>11. ASSUME NEW t \in Threads, RouteCountWrite(t)
      PROVE  StampInv'
  BY <1>11, <1>0 DEF RouteCountWrite, Return, Goto, Release, StampInv, Sorted,
     LockInv, Critical
<1>12. ASSUME NEW t \in Threads, RecordDecay(t)
      PROVE  StampInv'
  BY <1>12, <1>0 DEF RecordDecay, Goto, Acquire, StampInv, Sorted, LockInv, Critical
<1>13. ASSUME NEW t \in Threads, RecordCredit(t)
      PROVE  StampInv'
  BY <1>13, <1>0 DEF RecordCredit, Goto, StampInv, Sorted, LockInv, Critical
<1>14. ASSUME NEW t \in Threads, AppendColumn(t)
      PROVE  StampInv'
  <2>1. /\ pc[t] = "append" /\ col[t] \in Columns /\ stamp' = stamp /\ tick' = tick
        /\ arg[t] \in Outcomes
    BY <1>14, <1>0 DEF AppendColumn, StateInv, ArgInv
  <2>2. \A u \in Threads : pc[u] = "append" => u = t
    BY <2>1, Alone DEF Critical
  <2>3. \A u \in Threads : pc'[u] = "append" => u = t /\ col'[t] # TickCol
    BY SMTT(30), <1>14, <1>0, <2>1, <2>2 DEF AppendColumn, Goto, Columns, TickCol, IssuerCol
  <2>4. hist' = [hist EXCEPT ![col[t]] = Append(@, Row(arg[t], stamp[t])[col[t]])]
    BY <1>14 DEF AppendColumn
  <2>5. Row(arg[t], stamp[t])[col[t]] \in Cell
    BY <1>0, <2>1, RowType
  <2>6. TickCol \in Columns
    BY DEF TickCol, Columns
  <2>7. CASE col[t] # TickCol
    <3>1. hist'[TickCol] = hist[TickCol]
      BY <1>0, <2>1, <2>4, <2>5, <2>6, <2>7, AppendRows
    <3> QED
      BY <2>1, <2>2, <2>3, <3>1 DEF StampInv
  <2>8. CASE col[t] = TickCol
    <3> DEFINE s == hist[TickCol]
               r == hist'[TickCol]
    <3>1. Row(arg[t], stamp[t])[col[t]] = stamp[t]
      BY <2>8 DEF Row, TickCol
    <3>2. /\ Len(r) = Len(s) + 1
          /\ \A i \in 1..Len(s) : r[i] = s[i]
          /\ r[Len(s) + 1] = stamp[t]
      BY <1>0, <2>1, <2>4, <2>5, <2>6, <2>8, <3>1, AppendRows
    <3>3. s \in Seq(0..MaxTick) /\ r \in Seq(0..MaxTick)
      BY <1>0, TypeStep DEF StateInv, TypeOK
    <3>4. /\ \A i, j \in 1..Len(s) : i <= j => s[i] <= s[j]
          /\ \A i \in 1..Len(s) : s[i] <= stamp[t]
          /\ stamp[t] <= tick
      BY <2>1, <2>8, <3>3 DEF StampInv, Sorted
    <3>5. /\ stamp[t] \in Int /\ tick \in Int
          /\ Len(s) \in Nat /\ \A i \in 1..Len(s) : s[i] \in Int
          /\ \A i \in 1..Len(r) : r[i] \in Int
      BY <1>0, <3>3
    <3> HIDE DEF s, r
    <3>6. \A i \in 1..Len(r) : i \in 1..Len(s) \/ i = Len(s) + 1
      BY <3>2, <3>5
    <3>7. \A i, j \in 1..Len(r) : i <= j => r[i] <= r[j]
      <4> SUFFICES ASSUME NEW i \in 1..Len(r), NEW j \in 1..Len(r), i <= j
                   PROVE  r[i] <= r[j]
        OBVIOUS
      <4>1. CASE j = Len(s) + 1
        BY <3>2, <3>4, <3>5, <3>6, <4>1
      <4>2. CASE j \in 1..Len(s)
        <5>1. i \in 1..Len(s)
          BY <3>5, <4>2
        <5> QED
          BY <3>2, <3>4, <4>2, <5>1
      <4> QED
        BY <3>6, <4>1, <4>2
    <3>8. \A i \in 1..Len(r) : r[i] <= tick
      <4> SUFFICES ASSUME NEW i \in 1..Len(r) PROVE r[i] <= tick
        OBVIOUS
      <4>1. r[i] <= stamp[t]
        BY <3>2, <3>4, <3>5, <3>6
      <4> QED
        BY <3>4, <3>5, <4>1
    <3>9. DOMAIN r = 1..Len(r)
      BY <3>3
    <3> QED
      BY <2>1, <2>3, <3>4, <3>7, <3>8, <3>9 DEF StampInv, Sorted, r
  <2> QED
    BY <2>7, <2>8
<1>15. ASSUME NEW t \in Threads, TrimColumn(t)
      PROVE  StampInv'
  <2>1. pc[t] = "trim" /\ col[t] \in Columns /\ tick' = tick /\ stamp' = stamp
    BY <1>15, <1>0 DEF TrimColumn
  <2>2. \A u \in Threads : pc'[u] # "append"
    <3>1. \A u \in Threads : pc[u] = "append" => u = t
      BY <2>1, Alone DEF Critical
    <3>2. pc' = pc \/ pc' = [pc EXCEPT ![t] = "publish"]
      BY <1>15 DEF TrimColumn, Goto
    <3> QED
      BY <1>0, <2>1, <3>1, <3>2
  <2>3. drop[t] = 1 /\ Len(hist[col[t]]) >= 1
    <3>1. /\ drop[t] = 1
          /\ Len(hist[col[t]]) = IF col[t] < col[t] THEN HistoryLimit ELSE HistoryLimit + 1
      BY <2>1 DEF ColumnsInv
    <3>2. col[t] \in Int
      BY <2>1 DEF Columns
    <3> QED
      BY <1>0, <3>1, <3>2
  <2>4. hist' = [hist EXCEPT ![col[t]] = DropFirst(@, 1)]
    BY <1>15, <2>3 DEF TrimColumn
  <2>5. TickCol \in Columns
    BY DEF TickCol, Columns
  <2>6. CASE col[t] # TickCol
    <3>1. hist'[TickCol] = hist[TickCol]
      BY <1>0, <2>1, <2>3, <2>4, <2>5, <2>6, DropRows
    <3> QED
      BY <2>1, <2>2, <3>1 DEF StampInv
  <2>7. CASE col[t] = TickCol
    <3> DEFINE s == hist[TickCol]
               r == hist'[TickCol]
    <3>1. Len(r) = Len(s) - 1 /\ \A i \in 1..(Len(s) - 1) : r[i] = s[i + 1]
      BY <1>0, <2>1, <2>3, <2>4, <2>5, <2>7, DropRows
    <3>2. s \in Seq(0..MaxTick) /\ r \in Seq(0..MaxTick)
      BY <1>0, TypeStep DEF StateInv, TypeOK
    <3>3. /\ \A i, j \in 1..Len(s) : i <= j => s[i] <= s[j]
          /\ \A i \in 1..Len(s) : s[i] <= tick
      BY <3>2 DEF StampInv, Sorted
    <3>6. Len(s) \in Nat /\ Len(r) \in Nat
      BY <3>2
    <3> HIDE DEF s, r
    <3>7. \A i \in 1..Len(r) : i + 1 \in 1..Len(s) /\ r[i] = s[i + 1]
      BY <3>1, <3>6
    <3>4. /\ \A i, j \in 1..Len(r) : i <= j => r[i] <= r[j]
          /\ \A i \in 1..Len(r) : r[i] <= tick
      <4>1. \A i \in 1..Len(r) : r[i] <= tick
        BY <3>3, <3>7
      <4>2. ASSUME NEW i \in 1..Len(r), NEW j \in 1..Len(r), i <= j
            PROVE  r[i] <= r[j]
        <5>1. i + 1 <= j + 1
          BY <3>6, <4>2
        <5> QED
          BY <3>3, <3>7, <5>1
      <4> QED
        BY <4>1, <4>2
    <3>5. DOMAIN r = 1..Len(r)
      BY <3>2
    <3> QED
      BY <2>1, <2>2, <3>4, <3>5 DEF StampInv, Sorted, r
  <2> QED
    BY <2>6, <2>7
<1>16. ASSUME NEW t \in Threads, RecordPublish(t)
      PROVE  StampInv'
  BY <1>16, <1>0 DEF RecordPublish, Return, Goto, StampInv, Sorted, LockInv, Critical
<1>17. ASSUME NEW t \in Threads, CopyFirst(t)
      PROVE  StampInv'
  BY <1>17, <1>0 DEF CopyFirst, Goto, Acquire, StampInv, Sorted, LockInv, Critical
<1>18. ASSUME NEW t \in Threads, CopyNext(t)
      PROVE  StampInv'
  BY <1>18, <1>0 DEF CopyNext, StampInv, Sorted, LockInv, Critical
<1>19. ASSUME NEW t \in Threads, CopyLast(t)
      PROVE  StampInv'
  BY <1>19, <1>0 DEF CopyLast, Return, Goto, Release, StampInv, Sorted, LockInv,
     Critical
<1> QED
  BY <1>1, <1>2, <1>3, <1>4, <1>5, <1>6, <1>7, <1>8, <1>9, <1>10, <1>11, <1>12, <1>13,
     <1>14, <1>15, <1>16, <1>17, <1>18, <1>19 DEF Next, Arrive, Serve

LEMMA CopyStep ==
  ASSUME StateInv, LockInv, ColumnsInv, StampInv, CopyInv, [Next]_vars
  PROVE  CopyInv'
<1>0. /\ DOMAIN pc = Threads /\ DOMAIN col = Threads
      /\ DOMAIN copy = Threads /\ DOMAIN view = Threads
      /\ hist \in [Columns -> Seq(Cell)]
      /\ \A t \in Threads : col[t] \in Columns
      /\ Nobody \notin Threads
  BY ConstantsAssumption DEF StateInv, TypeOK, Table
<1>1. CASE UNCHANGED vars
  BY <1>1, <1>0 DEF vars, local, CopyInv, CopiesAreWhole, LockInv, Critical,
     EmptyColumns, Columns
<1>2. CASE Tick
  BY <1>2, <1>0 DEF Tick, local, CopyInv, CopiesAreWhole, LockInv, Critical,
     EmptyColumns, Columns
<1>3. CASE Quiescent
  BY <1>3, <1>0 DEF Quiescent, vars, local, CopyInv, CopiesAreWhole, LockInv,
     Critical, EmptyColumns, Columns
<1>4. ASSUME NEW t \in Threads, NEW i \in Issuers, RouteArrives(t, i)
      PROVE  CopyInv'
  BY <1>4, <1>0 DEF RouteArrives, Goto, CopyInv, CopiesAreWhole, LockInv, Critical,
     EmptyColumns, Columns
<1>5. ASSUME NEW t \in Threads, NEW r \in Reports, OutcomeRejected(t, r)
      PROVE  CopyInv'
  BY <1>5, <1>0 DEF OutcomeRejected, local, CopyInv, CopiesAreWhole, LockInv,
     Critical, EmptyColumns, Columns
<1>6. ASSUME NEW t \in Threads, NEW r \in Reports, OutcomeArrives(t, r)
      PROVE  CopyInv'
  BY <1>6, <1>0 DEF OutcomeArrives, Goto, CopyInv, CopiesAreWhole, LockInv, Critical,
     EmptyColumns, Columns
<1>7. ASSUME NEW t \in Threads, HistoryRequested(t)
      PROVE  CopyInv'
  BY <1>7, <1>0 DEF HistoryRequested, Goto, local, CopyInv, CopiesAreWhole, LockInv,
     Critical, EmptyColumns, Columns
<1>8. ASSUME NEW t \in Threads, RouteBlocked(t)
      PROVE  CopyInv'
  BY <1>8, <1>0 DEF RouteBlocked, Goto, CopyInv, CopiesAreWhole, LockInv, Critical,
     EmptyColumns, Columns
<1>9. ASSUME NEW t \in Threads, RouteDecide(t)
      PROVE  CopyInv'
  BY <1>9, <1>0 DEF RouteDecide, Goto, CopyInv, CopiesAreWhole, LockInv, Critical,
     EmptyColumns, Columns
<1>10. ASSUME NEW t \in Threads, RouteCountRead(t)
      PROVE  CopyInv'
  BY <1>10, <1>0 DEF RouteCountRead, Goto, Acquire, CopyInv, CopiesAreWhole, LockInv,
     Critical, EmptyColumns, Columns
<1>11. ASSUME NEW t \in Threads, RouteCountWrite(t)
      PROVE  CopyInv'
  BY <1>11, <1>0 DEF RouteCountWrite, Return, Goto, Release, CopyInv, CopiesAreWhole,
     LockInv, Critical, EmptyColumns, Columns
<1>12. ASSUME NEW t \in Threads, RecordDecay(t)
      PROVE  CopyInv'
  BY <1>12, <1>0 DEF RecordDecay, Goto, Acquire, CopyInv, CopiesAreWhole, LockInv,
     Critical, EmptyColumns, Columns
<1>13. ASSUME NEW t \in Threads, RecordCredit(t)
      PROVE  CopyInv'
  BY <1>13, <1>0 DEF RecordCredit, Goto, CopyInv, CopiesAreWhole, LockInv, Critical,
     EmptyColumns, Columns
<1>14. ASSUME NEW t \in Threads, AppendColumn(t)
      PROVE  CopyInv'
  BY <1>14, <1>0 DEF AppendColumn, Goto, Release, CopyInv, CopiesAreWhole, LockInv,
     Critical, EmptyColumns, Columns
<1>15. ASSUME NEW t \in Threads, TrimColumn(t)
      PROVE  CopyInv'
  BY <1>15, <1>0 DEF TrimColumn, Goto, Release, CopyInv, CopiesAreWhole, LockInv,
     Critical, EmptyColumns, Columns
<1>16. ASSUME NEW t \in Threads, RecordPublish(t)
      PROVE  CopyInv'
  BY <1>16, <1>0 DEF RecordPublish, Return, Goto, CopyInv, CopiesAreWhole, LockInv,
     Critical, EmptyColumns, Columns
<1>17. ASSUME NEW t \in Threads, CopyFirst(t)
      PROVE  CopyInv'
  <2>1. \A u \in Threads : u # t => pc'[u] # "copy"
    BY <1>17, <1>0 DEF CopyFirst, Goto, Acquire, LockInv, Critical
  <2>2. /\ copy' = [copy EXCEPT ![t] = [copy[t] EXCEPT ![TickCol] = hist[TickCol]]]
        /\ col'[t] = TickCol + 1 /\ hist' = hist /\ view' = view
    BY <1>17, <1>0 DEF CopyFirst
  <2>3. \A u \in Threads : DOMAIN copy'[u] = Columns
    BY <1>0, <2>2 DEF CopyInv
  <2>4. \A c \in Columns : c < col'[t] => copy'[t][c] = hist'[c]
    BY <1>0, <2>2 DEF CopyInv, Columns, TickCol
  <2>5. col'[t] > TickCol
    BY <2>2 DEF TickCol
  <2> QED
    BY <2>1, <2>2, <2>3, <2>4, <2>5 DEF CopyInv, CopiesAreWhole
<1>18. ASSUME NEW t \in Threads, CopyNext(t)
      PROVE  CopyInv'
  <2>1. \A u \in Threads : u # t => pc[u] # "copy"
    BY <1>18, Alone DEF CopyNext, Critical
  <2>2. /\ copy' = [copy EXCEPT ![t] = [copy[t] EXCEPT ![col[t]] = hist[col[t]]]]
        /\ col'[t] = col[t] + 1 /\ hist' = hist /\ view' = view /\ pc' = pc
        /\ pc[t] = "copy"
    BY <1>18, <1>0 DEF CopyNext
  <2>3. \A u \in Threads : DOMAIN copy'[u] = Columns
    BY <1>0, <2>2 DEF CopyInv
  <2>4. \A c \in Columns : c < col'[t] => copy'[t][c] = hist'[c]
    BY <1>0, <2>2 DEF CopyInv, Columns
  <2>5. col'[t] > TickCol
    BY <1>0, <2>2 DEF CopyInv, TickCol, Columns
  <2> QED
    BY <2>1, <2>2, <2>3, <2>4, <2>5 DEF CopyInv, CopiesAreWhole
<1>19. ASSUME NEW t \in Threads, CopyLast(t)
      PROVE  CopyInv'
  <2> DEFINE got == [copy[t] EXCEPT ![IssuerCol] = hist[IssuerCol]]
  <2>1. \A u \in Threads : pc[u] \in Critical => u = t
    BY <1>19, Alone DEF CopyLast, Critical
  <2>2. \A u \in Threads : pc'[u] # "copy" /\ pc[u] \notin {"append", "trim"}
    BY <1>19, <1>0, <2>1 DEF CopyLast, Return, Goto, Critical
  <2>3. \A u \in Threads : DOMAIN copy'[u] = Columns
    BY <1>19, <1>0 DEF CopyLast, Return, CopyInv, EmptyColumns
  <2>4. \A c \in Columns : got[c] = hist[c]
    BY <1>19, <1>0 DEF CopyLast, CopyInv, Columns, IssuerCol
  <2>5. TickCol \in Columns
    BY DEF TickCol, Columns
  <2>6. \A c \in Columns : Len(got[c]) = Len(got[TickCol])
    BY <2>2, <2>4, <2>5 DEF ColumnsInv
  <2>7. Sorted(got[TickCol])
    BY <2>4, <2>5 DEF StampInv
  <2>8. view' = [view EXCEPT ![t] = IF got[TickCol] = <<>> THEN Nothing ELSE got]
    BY <1>19 DEF CopyLast
  <2> HIDE DEF got
  <2>9. CopiesAreWhole'
    BY <1>0, <2>6, <2>8 DEF CopyInv, CopiesAreWhole
  <2>10. \A u \in Threads : view'[u] # Nothing => Sorted(view'[u][TickCol])
    BY <1>0, <2>7, <2>8 DEF CopyInv
  <2> QED
    BY <2>2, <2>3, <2>9, <2>10 DEF CopyInv
<1> QED
  BY <1>1, <1>2, <1>3, <1>4, <1>5, <1>6, <1>7, <1>8, <1>9, <1>10, <1>11, <1>12, <1>13,
     <1>14, <1>15, <1>16, <1>17, <1>18, <1>19 DEF Next, Arrive, Serve

-------------------------------------------------------------------------------

IInv ==
  /\ StateInv /\ LockInv /\ CountInv /\ PosteriorInv
  /\ ColumnsInv /\ StampInv /\ CopyInv

LEMMA InitIInv == Init => IInv
<1> SUFFICES ASSUME Init PROVE IInv
  OBVIOUS
<1>1. StateInv
  BY ConstantsAssumption DEF Init, StateInv, TypeOK, ArgInv, Table, EmptyColumns,
     Columns, TickCol, IssuerCol, Waiting
<1>2. LockInv
  BY ConstantsAssumption DEF Init, LockInv, Critical
<1>3. CountInv
  BY DEF Init, CountInv, NoDecisionLost
<1>4. PosteriorInv
  BY DEF Init, PosteriorInv, DecisionsSeeWholeUpdates
<1>5. ColumnsInv
  <2>1. \A c \in Columns : Len(hist[c]) = 0
    BY DEF Init, EmptyColumns
  <2>2. 0 \in 0..HistoryLimit
    BY ConstantsAssumption
  <2>3. \A t \in Threads : pc[t] = "idle"
    BY DEF Init
  <2> QED
    BY <2>1, <2>2, <2>3 DEF ColumnsInv
<1>6. StampInv
  BY DEF Init, StampInv, Sorted, EmptyColumns, TickCol, Columns
<1>7. CopyInv
  BY DEF Init, CopyInv, CopiesAreWhole, EmptyColumns
<1> QED
  BY <1>1, <1>2, <1>3, <1>4, <1>5, <1>6, <1>7 DEF IInv

LEMMA Inductive == Spec => []IInv
<1>1. IInv /\ [Next]_vars => IInv'
  BY TypeStep, LockStep, CountStep, PosteriorStep, ColumnsStep, StampStep, CopyStep
     DEF IInv
<1> QED
  BY <1>1, InitIInv, PTL DEF Spec

\* Every variable keeps its type: in particular no report, whatever issuer it
\* names, puts an issuer into the history that RunResult cannot index.
THEOREM TypeCorrect == Spec => []TypeOK
BY Inductive, PTL DEF IInv, StateInv

\* No /route increment of the decision counter is lost, for any number of
\* threads.
THEOREM DecisionsCounted == Spec => []NoDecisionLost
BY Inductive, PTL DEF IInv, CountInv

\* No decision samples a half-updated posterior.
THEOREM WholeUpdates == Spec => []DecisionsSeeWholeUpdates
BY Inductive, PTL DEF IInv, PosteriorInv

\* No investigation is handed lists of different lengths.
THEOREM WholeCopies == Spec => []CopiesAreWhole
BY Inductive, PTL DEF IInv, CopyInv

\* The ticks are in order in the history and in every copy of it, which the
\* window slicing of TelemetryStore relies on.
THEOREM OrderedTicks == Spec => []TicksInOrder
<1>1. IInv => TicksInOrder
  BY DEF IInv, StampInv, CopyInv, TicksInOrder
<1> QED
  BY <1>1, Inductive, PTL

-------------------------------------------------------------------------------
(* What is kept of an outcome: the row it has in the five lists, trimmed or  *)
(* not, and the one event published of it.                                   *)
(*                                                                           *)
(* The row of an outcome is found by counting from the end of a list, so the *)
(* invariant says how many outcomes a list is behind the posterior (Lag) and *)
(* how long it is, wherever the writer stands. With it every step is shown   *)
(* to be a step of OutcomeLog or to leave that log alone.                    *)

Recording == {"append", "trim", "publish"}

Limited(n) == IF n < HistoryLimit THEN n ELSE HistoryLimit

\* The newest outcome is not yet in the columns its writer has not come to.
Lag(c) == IF \E t \in Threads : pc[t] = "append" /\ col[t] <= c THEN 1 ELSE 0

Entry(c, i) == Row(credits[Len(credits) - Lag(c) - Len(hist[c]) + i], 0)[c]

LengthsInv ==
  /\ (\A t \in Threads : pc[t] \notin {"append", "trim"})
       => \A c \in Columns : Len(hist[c]) = Limited(Len(credits))
  /\ \A t \in Threads : pc[t] = "append" =>
       /\ Len(credits) >= 1
       /\ credits[Len(credits)] = arg[t]
       /\ \A c \in Columns :
            Len(hist[c]) = Limited(Len(credits) - 1) + (IF c < col[t] THEN 1 ELSE 0)
  /\ \A t \in Threads : pc[t] = "trim" => Len(credits) > HistoryLimit

RowsInv ==
  \A c \in Columns \ {TickCol} : \A i \in 1..Len(hist[c]) : hist[c][i] = Entry(c, i)

\* The newest tick in the list is the one its writer is appending a row for.
NewestTickInv ==
  \A t \in Threads : pc[t] = "append" /\ col[t] > TickCol =>
    hist[TickCol][Len(hist[TickCol])] = stamp[t]

\* An outcome is published or held by its writer, not both and not twice.
PublishInv ==
  /\ \A i \in DOMAIN published : published[i] \in 1..Len(credits)
  /\ \A i, j \in DOMAIN published : published[i] = published[j] => i = j
  /\ \A t \in Threads : pc[t] \in Recording =>
       /\ tmp[t] \in 1..Len(credits)
       /\ \A i \in DOMAIN published : published[i] # tmp[t]
  /\ \A t, u \in Threads :
       pc[t] \in Recording /\ pc[u] \in Recording /\ tmp[t] = tmp[u] => t = u
  /\ \A p \in 1..Len(credits) :
       \/ \E i \in DOMAIN published : published[i] = p
       \/ \E t \in Threads : pc[t] \in Recording /\ tmp[t] = p

-------------------------------------------------------------------------------
(* The steps that matter                                                     *)

\* Nothing is recorded, and whoever records stays where he is.
Quiet ==
  /\ hist' = hist /\ credits' = credits /\ published' = published
  /\ \A u \in Threads :
       /\ pc'[u] \in Recording <=> pc[u] \in Recording
       /\ pc[u] \in Recording => /\ pc'[u] = pc[u] /\ col'[u] = col[u]
                                 /\ tmp'[u] = tmp[u] /\ arg'[u] = arg[u]
                                 /\ stamp'[u] = stamp[u]

LEMMA FourSteps ==
  ASSUME StateInv, [Next]_vars
  PROVE  \/ Quiet
         \/ \E t \in Threads : \/ RecordCredit(t) \/ AppendColumn(t)
                               \/ TrimColumn(t) \/ RecordPublish(t)
<1>0. /\ DOMAIN pc = Threads /\ DOMAIN col = Threads
      /\ DOMAIN tmp = Threads /\ DOMAIN arg = Threads /\ DOMAIN stamp = Threads
  BY DEF StateInv, TypeOK
<1>1. CASE UNCHANGED vars
  BY <1>1 DEF vars, local, Quiet
<1>2. CASE Tick
  BY <1>2 DEF Tick, local, Quiet
<1>3. CASE Quiescent
  BY <1>3 DEF Quiescent, vars, local, Quiet
<1>4. ASSUME NEW t \in Threads, NEW i \in Issuers, RouteArrives(t, i)
      PROVE  Quiet
  BY <1>0, <1>4 DEF RouteArrives, Goto, Quiet, Recording
<1>5. ASSUME NEW t \in Threads, NEW r \in Reports, OutcomeRejected(t, r)
      PROVE  Quiet
  BY <1>5 DEF OutcomeRejected, local, Quiet
<1>6. ASSUME NEW t \in Threads, NEW r \in Reports, OutcomeArrives(t, r)
      PROVE  Quiet
  BY <1>0, <1>6 DEF OutcomeArrives, Goto, Quiet, Recording
<1>7. ASSUME NEW t \in Threads, HistoryRequested(t)
      PROVE  Quiet
  BY <1>0, <1>7 DEF HistoryRequested, Goto, local, Quiet, Recording
<1>8. ASSUME NEW t \in Threads, RouteBlocked(t)
      PROVE  Quiet
  BY <1>0, <1>8 DEF RouteBlocked, Goto, Quiet, Recording
<1>9. ASSUME NEW t \in Threads, RouteDecide(t)
      PROVE  Quiet
  BY <1>0, <1>9 DEF RouteDecide, Goto, Quiet, Recording
<1>10. ASSUME NEW t \in Threads, RouteCountRead(t)
       PROVE  Quiet
  BY <1>0, <1>10 DEF RouteCountRead, Goto, Quiet, Recording
<1>11. ASSUME NEW t \in Threads, RouteCountWrite(t)
       PROVE  Quiet
  BY <1>0, <1>11 DEF RouteCountWrite, Return, Goto, Quiet, Recording
<1>12. ASSUME NEW t \in Threads, RecordDecay(t)
       PROVE  Quiet
  BY <1>0, <1>12 DEF RecordDecay, Goto, Quiet, Recording
<1>17. ASSUME NEW t \in Threads, CopyFirst(t)
       PROVE  Quiet
  BY <1>0, <1>17 DEF CopyFirst, Goto, Quiet, Recording
<1>18. ASSUME NEW t \in Threads, CopyNext(t)
       PROVE  Quiet
  BY <1>0, <1>18 DEF CopyNext, Quiet, Recording
<1>19. ASSUME NEW t \in Threads, CopyLast(t)
       PROVE  Quiet
  BY <1>0, <1>19 DEF CopyLast, Return, Goto, Quiet, Recording
<1> QED
  BY <1>1, <1>2, <1>3, <1>4, <1>5, <1>6, <1>7, <1>8, <1>9, <1>10, <1>11, <1>12,
     <1>17, <1>18, <1>19 DEF Next, Arrive, Serve

-------------------------------------------------------------------------------
(* One event of every outcome                                                *)

LEMMA PublishStep ==
  ASSUME StateInv, PublishInv, [Next]_vars
  PROVE  PublishInv'
<1>0. /\ DOMAIN pc = Threads /\ DOMAIN tmp = Threads
      /\ published \in Seq(Nat) /\ credits \in Seq(Outcomes) /\ Len(credits) \in Nat
      /\ DOMAIN published = 1..Len(published)
  BY DEF StateInv, TypeOK
<1>1. CASE Quiet
  BY <1>1 DEF Quiet, PublishInv
<1>2. ASSUME NEW t \in Threads, RecordCredit(t)
      PROVE  PublishInv'
  <2>1. /\ pc[t] = "credit" /\ pc' = [pc EXCEPT ![t] = "append"]
        /\ tmp' = [tmp EXCEPT ![t] = Len(credits) + 1] /\ published' = published
    BY <1>2 DEF RecordCredit, Goto
  <2>2. Len(credits') = Len(credits) + 1
    <3>1. arg[t] \in Outcomes
      BY <2>1 DEF StateInv, ArgInv
    <3> QED
      BY <1>0, <1>2, <3>1 DEF RecordCredit
  <2>3. /\ pc'[t] \in Recording /\ tmp'[t] = Len(credits) + 1
        /\ \A u \in Threads : u # t => pc'[u] = pc[u] /\ tmp'[u] = tmp[u]
    BY <1>0, <2>1 DEF Recording
  <2>4. pc[t] \notin Recording
    BY <2>1 DEF Recording
  <2>5. \A p \in 1..Len(credits) : p \in 1..(Len(credits) + 1) /\ p # Len(credits) + 1
    BY <1>0
  <2>6. \A p \in 1..(Len(credits) + 1) : p \in 1..Len(credits) \/ p = Len(credits) + 1
    BY <1>0
  <2>7. Len(credits) + 1 \in 1..(Len(credits) + 1)
    BY <1>0
  <2>8. \A i \in DOMAIN published : /\ published[i] \in 1..Len(credits')
                                    /\ published[i] # Len(credits) + 1
    BY <2>2, <2>5 DEF PublishInv
  <2>9. \A u \in Threads : pc'[u] \in Recording =>
          /\ tmp'[u] \in 1..Len(credits')
          /\ \A i \in DOMAIN published : published[i] # tmp'[u]
    BY <2>2, <2>3, <2>5, <2>7, <2>8 DEF PublishInv
  <2>10. \A u, v \in Threads :
           pc'[u] \in Recording /\ pc'[v] \in Recording /\ tmp'[u] = tmp'[v] => u = v
    BY <2>3, <2>5 DEF PublishInv
  <2>11. \A p \in 1..Len(credits') :
           \/ \E i \in DOMAIN published : published[i] = p
           \/ \E u \in Threads : pc'[u] \in Recording /\ tmp'[u] = p
    <3> SUFFICES ASSUME NEW p \in 1..Len(credits')
                 PROVE  \/ \E i \in DOMAIN published : published[i] = p
                        \/ \E u \in Threads : pc'[u] \in Recording /\ tmp'[u] = p
      OBVIOUS
    <3>1. CASE p = Len(credits) + 1
      BY <2>3, <3>1
    <3>2. CASE p \in 1..Len(credits)
      BY <2>3, <2>4, <3>2 DEF PublishInv
    <3> QED
      BY <2>2, <2>6, <3>1, <3>2
  <2>12. \A i, j \in DOMAIN published : published[i] = published[j] => i = j
    BY DEF PublishInv
  <2> QED
    BY <2>1, <2>8, <2>9, <2>10, <2>11, <2>12 DEF PublishInv
<1>3. ASSUME NEW t \in Threads, AppendColumn(t) \/ TrimColumn(t)
      PROVE  PublishInv'
  <2>1. /\ tmp' = tmp /\ credits' = credits /\ published' = published
        /\ pc[t] \in Recording
    BY <1>3 DEF AppendColumn, TrimColumn, Recording
  <2>2. pc' = pc \/ \E where \in Recording : pc' = [pc EXCEPT ![t] = where]
    BY <1>3 DEF AppendColumn, TrimColumn, Goto, Recording
  <2>3. \A u \in Threads : pc'[u] \in Recording <=> pc[u] \in Recording
    BY <1>0, <2>1, <2>2
  <2> QED
    BY <2>1, <2>3 DEF PublishInv
<1>4. ASSUME NEW t \in Threads, RecordPublish(t)
      PROVE  PublishInv'
  <2>1. /\ pc[t] \in Recording /\ pc' = [pc EXCEPT ![t] = "idle"]
        /\ tmp' = [tmp EXCEPT ![t] = 0]
        /\ published' = Append(published, tmp[t]) /\ credits' = credits
    BY <1>4 DEF RecordPublish, Return, Goto, Recording
  <2>2. /\ pc'[t] \notin Recording
        /\ \A u \in Threads : u # t => pc'[u] = pc[u] /\ tmp'[u] = tmp[u]
    BY <1>0, <2>1 DEF Recording
  <2>3. tmp[t] \in Nat
    BY DEF StateInv, TypeOK
  <2>4. /\ DOMAIN published' = 1..(Len(published) + 1)
        /\ published'[Len(published) + 1] = tmp[t]
        /\ \A i \in 1..Len(published) : published'[i] = published[i]
    BY <1>0, <2>1, <2>3
  <2>5. \A i \in DOMAIN published' : i \in DOMAIN published \/ i = Len(published) + 1
    BY <1>0, <2>4
  <2>6. /\ \A i \in DOMAIN published : i \in DOMAIN published'
        /\ Len(published) + 1 \in DOMAIN published'
    BY <1>0, <2>4
  <2>7. \A i \in DOMAIN published : published'[i] = published[i]
    BY <1>0, <2>4
  <2>8. \A i \in DOMAIN published : published[i] # tmp[t]
    BY <2>1 DEF PublishInv
  <2>9. tmp[t] \in 1..Len(credits)
    BY <2>1 DEF PublishInv
  <2>10. /\ \A i \in DOMAIN published' : published'[i] \in 1..Len(credits)
         /\ \A i, j \in DOMAIN published' : published'[i] = published'[j] => i = j
    BY <2>4, <2>5, <2>7, <2>8, <2>9 DEF PublishInv
  <2>11. \A u \in Threads : pc'[u] \in Recording =>
           /\ tmp'[u] \in 1..Len(credits)
           /\ \A i \in DOMAIN published' : published'[i] # tmp'[u]
    BY <2>1, <2>2, <2>4, <2>5, <2>7 DEF PublishInv
  <2>12. \A u, v \in Threads :
           pc'[u] \in Recording /\ pc'[v] \in Recording /\ tmp'[u] = tmp'[v] => u = v
    BY <2>2 DEF PublishInv
  <2>13. \A p \in 1..Len(credits) :
           \/ \E i \in DOMAIN published' : published'[i] = p
           \/ \E u \in Threads : pc'[u] \in Recording /\ tmp'[u] = p
    <3> SUFFICES ASSUME NEW p \in 1..Len(credits)
                 PROVE  \/ \E i \in DOMAIN published' : published'[i] = p
                        \/ \E u \in Threads : pc'[u] \in Recording /\ tmp'[u] = p
      OBVIOUS
    <3>1. CASE p = tmp[t]
      BY <2>4, <2>6, <3>1
    <3>2. CASE p # tmp[t]
      BY <2>2, <2>6, <2>7, <3>2 DEF PublishInv
    <3> QED
      BY <3>1, <3>2
  <2> QED
    BY <2>1, <2>10, <2>11, <2>12, <2>13 DEF PublishInv
<1> QED
  BY <1>1, <1>2, <1>3, <1>4, FourSteps

\* At most one of a set, or none.
LEMMA PublishedOrHeld ==
  ASSUME PublishInv
  PROVE  PublishedExactlyOnce
<1> SUFFICES ASSUME NEW p \in 1..Len(credits)
             PROVE  Cardinality({i \in DOMAIN published : published[i] = p})
                      + Cardinality({t \in Threads : pc[t] \in Recording /\ tmp[t] = p}) = 1
  BY DEF PublishedExactlyOnce, Recording
<1> DEFINE P == {i \in DOMAIN published : published[i] = p}
           H == {t \in Threads : pc[t] \in Recording /\ tmp[t] = p}
<1>1. CASE \E i \in DOMAIN published : published[i] = p
  <2> PICK i \in DOMAIN published : published[i] = p
    BY <1>1
  <2>1. P = {i}
    BY DEF PublishInv
  <2>2. H = {}
    BY DEF PublishInv
  <2>3. Cardinality(P) = 1 /\ Cardinality(H) = 0
    BY <2>1, <2>2, FS_Singleton, FS_EmptySet
  <2> QED
    BY <2>3
<1>2. CASE \E t \in Threads : pc[t] \in Recording /\ tmp[t] = p
  <2> PICK t \in Threads : pc[t] \in Recording /\ tmp[t] = p
    BY <1>2
  <2>1. H = {t}
    BY DEF PublishInv
  <2>2. P = {}
    BY DEF PublishInv
  <2>3. Cardinality(H) = 1 /\ Cardinality(P) = 0
    BY <2>1, <2>2, FS_Singleton, FS_EmptySet
  <2> QED
    BY <2>3
<1> QED
  BY <1>1, <1>2 DEF PublishInv

-------------------------------------------------------------------------------
(* Every row where it belongs                                                *)

\* Only the tick column depends on the tick.
LEMMA RowAtAnyTick ==
  ASSUME NEW r, NEW n, NEW c \in Columns \ {TickCol}
  PROVE  Row(r, n)[c] = Row(r, 0)[c]
BY DEF Row, Columns, TickCol

\* The lists grow with the posterior up to the limit; a writer is one row ahead in
\* the columns it has done.
LEMMA LengthsStep ==
  ASSUME StateInv, LockInv, ColumnsInv, LengthsInv, [Next]_vars
  PROVE  LengthsInv'
<1>0. /\ DOMAIN pc = Threads /\ DOMAIN col = Threads
      /\ \A t \in Threads : col[t] \in Columns
      /\ hist \in [Columns -> Seq(Cell)]
      /\ HistoryLimit \in Nat \ {0}
      /\ credits \in Seq(Outcomes) /\ Len(credits) \in Nat
  BY ConstantsAssumption DEF StateInv, TypeOK, Table
<1>1. CASE Quiet
  <2>1. \A u \in Threads : /\ pc'[u] = "append" <=> pc[u] = "append"
                           /\ pc'[u] = "trim" <=> pc[u] = "trim"
    BY <1>1 DEF Quiet, Recording
  <2>2. \A u \in Threads : pc[u] = "append" => col'[u] = col[u] /\ arg'[u] = arg[u]
    BY <1>1 DEF Quiet, Recording
  <2> QED
    BY <1>1, <2>1, <2>2 DEF Quiet, LengthsInv
<1>2. ASSUME NEW t \in Threads, RecordCredit(t)
      PROVE  LengthsInv'
  <2>1. /\ pc[t] = "credit" /\ pc' = [pc EXCEPT ![t] = "append"] /\ arg[t] \in Outcomes
        /\ credits' = Append(credits, arg[t]) /\ hist' = hist /\ arg' = arg
        /\ col'[t] = 1
    BY <1>0, <1>2 DEF RecordCredit, Goto, StateInv, ArgInv
  <2>2. \A u \in Threads : u # t => pc'[u] \notin {"append", "trim"}
    BY <1>0, <2>1, Alone DEF Critical
  <2>3. \A u \in Threads : pc[u] \notin {"append", "trim"}
    BY <2>1, Alone DEF Critical
  <2>4. Len(credits') = Len(credits) + 1 /\ credits'[Len(credits) + 1] = arg[t]
    BY <1>0, <2>1
  <2>5. \A c \in Columns : Len(hist'[c]) = Limited(Len(credits)) + (IF c < 1 THEN 1 ELSE 0)
    <3>1. \A c \in Columns : ~(c < 1)
      BY DEF Columns
    <3>2. Limited(Len(credits)) \in Int
      BY <1>0 DEF Limited
    <3> QED
      BY <2>1, <2>3, <3>1, <3>2 DEF LengthsInv
  <2>6. Len(credits') - 1 = Len(credits) /\ Len(credits') >= 1
    BY <1>0, <2>4
  <2>7. pc'[t] = "append"
    BY <1>0, <2>1
  <2> QED
    BY <2>1, <2>2, <2>4, <2>5, <2>6, <2>7 DEF LengthsInv
<1>3. ASSUME NEW t \in Threads, AppendColumn(t)
      PROVE  LengthsInv'
  <2> DEFINE n == Limited(Len(credits) - 1)
  <2>1. /\ pc[t] = "append" /\ col[t] \in Columns /\ arg' = arg /\ credits' = credits
        /\ arg[t] \in Outcomes
    BY <1>0, <1>3 DEF AppendColumn, StateInv, ArgInv
  <2>2. \A u \in Threads : pc[u] \in {"append", "trim"} => u = t
    BY <2>1, Alone DEF Critical
  <2>3. /\ Len(credits) >= 1 /\ credits[Len(credits)] = arg[t]
        /\ \A c \in Columns : Len(hist[c]) = n + (IF c < col[t] THEN 1 ELSE 0)
    BY <2>1 DEF LengthsInv
  <2>4. n \in Int /\ n <= HistoryLimit
    BY <1>0, <2>3 DEF Limited
  <2> HIDE DEF n
  <2>5. \A c \in Columns : Len(hist'[c]) = n + (IF c < col[t] + 1 THEN 1 ELSE 0)
    <3>1. hist' = [hist EXCEPT ![col[t]] = Append(@, Row(arg[t], stamp[t])[col[t]])]
      BY <1>3 DEF AppendColumn
    <3>2. Row(arg[t], stamp[t])[col[t]] \in Cell
      BY <2>1, RowType DEF StateInv, TypeOK
    <3>3. \A c \in Columns : Len(hist'[c]) = IF c = col[t] THEN Len(hist[c]) + 1
                                                           ELSE Len(hist[c])
      BY <1>0, <2>1, <3>1, <3>2, AppendRows
    <3>4. ASSUME NEW c \in Columns
          PROVE  Len(hist'[c]) = n + (IF c < col[t] + 1 THEN 1 ELSE 0)
      <4>1. c \in Int /\ col[t] \in Int
        BY <2>1 DEF Columns
      <4> QED
        BY <2>3, <2>4, <3>3, <4>1
    <3> QED
      BY <3>4
  <2>6. CASE col[t] < IssuerCol
    <3>1. pc' = pc /\ col'[t] = col[t] + 1
      BY <1>3, <1>0, <2>1, <2>6 DEF AppendColumn, Columns, IssuerCol
    <3> QED
      BY <2>1, <2>2, <2>3, <2>5, <3>1 DEF LengthsInv, n
  <2>7. CASE col[t] = IssuerCol
    <3>1. \A c \in Columns : Len(hist'[c]) = n + 1
      BY <2>5, <2>7 DEF Columns, IssuerCol
    <3>2. Len(hist[TickCol]) = n + 1
      BY <2>3, <2>7 DEF Columns, TickCol, IssuerCol
    <3>3. CASE n + 1 > HistoryLimit
      <4>1. pc' = [pc EXCEPT ![t] = "trim"]
        BY <1>0, <1>3, <2>4, <2>7, <3>2, <3>3 DEF AppendColumn, Goto, IssuerCol
      <4>2. \A u \in Threads : pc'[u] \in {"append", "trim"} => u = t /\ pc'[u] = "trim"
        BY <1>0, <2>2, <4>1
      <4>3. Len(credits) > HistoryLimit
        BY <1>0, <2>4, <3>3 DEF n, Limited
      <4>4. pc'[t] = "trim"
        BY <1>0, <4>1
      <4> QED
        BY <2>1, <4>2, <4>3, <4>4 DEF LengthsInv
    <3>4. CASE ~(n + 1 > HistoryLimit)
      <4>1. pc' = [pc EXCEPT ![t] = "publish"]
        BY <1>0, <1>3, <2>4, <2>7, <3>2, <3>4 DEF AppendColumn, Goto, IssuerCol
      <4>2. \A u \in Threads : pc'[u] \notin {"append", "trim"}
        BY <1>0, <2>2, <4>1
      <4>3. n + 1 = Limited(Len(credits))
        BY <1>0, <2>3, <2>4, <3>4 DEF n, Limited
      <4> QED
        BY <2>1, <3>1, <4>2, <4>3 DEF LengthsInv
    <3> QED
      BY <3>3, <3>4
  <2> QED
    BY <2>1, <2>6, <2>7 DEF Columns, IssuerCol
<1>4. ASSUME NEW t \in Threads, TrimColumn(t)
      PROVE  LengthsInv'
  <2>1. pc[t] = "trim" /\ col[t] \in Columns /\ credits' = credits
    BY <1>0, <1>4 DEF TrimColumn
  <2>2. \A u \in Threads : pc[u] \in {"append", "trim"} => u = t
    BY <2>1, Alone DEF Critical
  <2>3. Len(credits) > HistoryLimit
    BY <2>1 DEF LengthsInv
  <2>4. CASE pc' = pc
    BY <2>1, <2>2, <2>3, <2>4 DEF LengthsInv
  <2>5. CASE pc' # pc
    <3>1. pc' = [pc EXCEPT ![t] = "publish"]
      BY <1>4, <2>5 DEF TrimColumn, Goto
    <3>2. \A u \in Threads : pc'[u] \notin {"append", "trim"}
      BY <1>0, <2>2, <3>1
    <3>3. PICK n \in 0..HistoryLimit : \A c \in Columns : Len(hist'[c]) = n
      BY <3>2, ColumnsStep DEF ColumnsInv
    <3>4. col[t] = IssuerCol
      BY <1>4, <2>5 DEF TrimColumn
    <3>5. drop[t] = 1 /\ Len(hist[IssuerCol]) = HistoryLimit + 1
      BY <2>1, <3>4 DEF ColumnsInv, IssuerCol, Columns
    <3>6. Len(hist'[IssuerCol]) = HistoryLimit
      <4>1. hist' = [hist EXCEPT ![IssuerCol] = DropFirst(@, 1)]
        BY <1>4, <3>4, <3>5 DEF TrimColumn
      <4>2. IssuerCol \in Columns /\ Len(hist[IssuerCol]) >= 1
        BY <1>0, <3>5 DEF IssuerCol, Columns
      <4>3. Len(hist'[IssuerCol]) = Len(hist[IssuerCol]) - 1
        BY <1>0, <4>1, <4>2, DropRows
      <4> QED
        BY <1>0, <3>5, <4>3
    <3>7. IssuerCol \in Columns /\ Limited(Len(credits)) = HistoryLimit
      BY <1>0, <2>3 DEF IssuerCol, Columns, Limited
    <3> QED
      BY <2>1, <3>2, <3>3, <3>6, <3>7 DEF LengthsInv
  <2> QED
    BY <2>4, <2>5
<1>5. ASSUME NEW t \in Threads, RecordPublish(t)
      PROVE  LengthsInv'
  <2>1. /\ pc[t] = "publish" /\ pc' = [pc EXCEPT ![t] = "idle"]
        /\ hist' = hist /\ credits' = credits
        /\ \A u \in Threads : u # t => col'[u] = col[u] /\ arg'[u] = arg[u]
    BY <1>0, <1>5 DEF RecordPublish, Return, Goto, StateInv
  <2>2. pc'[t] = "idle" /\ \A u \in Threads : u # t => pc'[u] = pc[u]
    BY <1>0, <2>1
  <2> QED
    BY <2>1, <2>2 DEF LengthsInv
<1> QED
  BY <1>1, <1>2, <1>3, <1>4, <1>5, FourSteps

LEMMA RowsStep ==
  ASSUME StateInv, LockInv, ColumnsInv, LengthsInv, RowsInv, [Next]_vars
  PROVE  RowsInv'
<1>0. /\ DOMAIN pc = Threads /\ DOMAIN col = Threads
      /\ \A t \in Threads : col[t] \in Columns
      /\ hist \in [Columns -> Seq(Cell)]
      /\ \A c \in Columns : Len(hist[c]) \in Nat
      /\ HistoryLimit \in Nat \ {0}
      /\ credits \in Seq(Outcomes) /\ Len(credits) \in Nat
  BY ConstantsAssumption DEF StateInv, TypeOK, Table
<1>1. CASE Quiet
  <2>1. \A u \in Threads : /\ pc'[u] = "append" <=> pc[u] = "append"
                           /\ pc[u] = "append" => col'[u] = col[u]
    BY <1>1 DEF Quiet, Recording
  <2>2. \A c : Lag(c)' = Lag(c)
    BY <2>1 DEF Lag
  <2> QED
    BY <1>1, <2>2 DEF Quiet, RowsInv, Entry
<1>2. ASSUME NEW t \in Threads, RecordCredit(t)
      PROVE  RowsInv'
  <2>1. /\ pc[t] = "credit" /\ pc'[t] = "append" /\ arg[t] \in Outcomes
        /\ credits' = Append(credits, arg[t]) /\ hist' = hist /\ col'[t] = 1
    BY <1>0, <1>2 DEF RecordCredit, Goto, StateInv, ArgInv
  <2>2. \A u \in Threads : pc[u] \notin {"append", "trim"}
    BY <2>1, Alone DEF Critical
  <2>3. SUFFICES ASSUME NEW c \in Columns \ {TickCol}, NEW i \in 1..Len(hist[c])
                 PROVE  hist[c][i] = Entry(c, i)'
    BY <2>1 DEF RowsInv
  <2>4. Lag(c) = 0 /\ Lag(c)' = 1
    BY <2>1, <2>2 DEF Lag, Columns
  <2>5. Len(hist[c]) = Limited(Len(credits)) /\ Limited(Len(credits)) <= Len(credits)
    BY <1>0, <2>2 DEF LengthsInv, Limited
  <2> DEFINE k == Len(credits) - Len(hist[c]) + i
  <2>6. k \in 1..Len(credits)
    BY <1>0, <2>5
  <2>7. Len(credits') = Len(credits) + 1 /\ credits'[k] = credits[k]
    BY <1>0, <2>1, <2>6
  <2>8. Entry(c, i) = Row(credits[k], 0)[c]
    <3>1. Len(credits) - 0 - Len(hist[c]) + i = k
      BY <1>0
    <3> QED
      BY <2>4, <3>1 DEF Entry
  <2>9. Entry(c, i)' = Row(credits'[k], 0)[c]
    <3>1. Entry(c, i)' = Row(credits'[Len(credits') - 1 - Len(hist[c]) + i], 0)[c]
      BY <2>1, <2>4 DEF Entry
    <3>2. Len(credits') - 1 - Len(hist[c]) + i = k
      BY <1>0, <2>7
    <3> QED
      BY <3>1, <3>2
  <2> QED
    BY <2>7, <2>8, <2>9 DEF RowsInv
<1>3. ASSUME NEW t \in Threads, AppendColumn(t)
      PROVE  RowsInv'
  <2>1. /\ pc[t] = "append" /\ col[t] \in Columns /\ credits' = credits
        /\ arg[t] \in Outcomes
    BY <1>0, <1>3 DEF AppendColumn, StateInv, ArgInv
  <2>2. \A u \in Threads : pc[u] = "append" => u = t
    BY <2>1, Alone DEF Critical
  <2>3. /\ \A u \in Threads : pc'[u] = "append" => u = t /\ col'[t] = col[t] + 1
        /\ col[t] < IssuerCol => pc'[t] = "append" /\ col'[t] = col[t] + 1
        /\ col[t] = IssuerCol => pc'[t] # "append"
    BY SMTT(30), <1>0, <1>3, <2>1, <2>2 DEF AppendColumn, Goto, Columns, IssuerCol
  <2>4. \A c \in Columns : /\ Lag(c) = IF col[t] <= c THEN 1 ELSE 0
                           /\ Lag(c)' = IF col[t] + 1 <= c THEN 1 ELSE 0
    <3> SUFFICES ASSUME NEW c \in Columns
                 PROVE  /\ Lag(c) = IF col[t] <= c THEN 1 ELSE 0
                        /\ Lag(c)' = IF col[t] + 1 <= c THEN 1 ELSE 0
      OBVIOUS
    <3>1. Lag(c) = IF col[t] <= c THEN 1 ELSE 0
      BY <2>1, <2>2 DEF Lag
    <3>2. CASE col[t] < IssuerCol
      BY <2>3, <3>1, <3>2 DEF Lag
    <3>3. CASE col[t] = IssuerCol
      <4>1. ~(col[t] + 1 <= c)
        BY <3>3 DEF Columns, IssuerCol
      <4> QED
        BY <2>3, <3>1, <3>3, <4>1 DEF Lag
    <3> QED
      BY <2>1, <3>2, <3>3 DEF Columns, IssuerCol
  <2>5. hist' = [hist EXCEPT ![col[t]] = Append(@, Row(arg[t], stamp[t])[col[t]])]
    BY <1>3 DEF AppendColumn
  <2>6. Row(arg[t], stamp[t])[col[t]] \in Cell
    BY <2>1, RowType DEF StateInv, TypeOK
  <2>7. credits[Len(credits)] = arg[t]
    BY <2>1 DEF LengthsInv
  <2>8. SUFFICES ASSUME NEW c \in Columns \ {TickCol}, NEW i \in 1..Len(hist'[c])
                 PROVE  hist'[c][i] = Entry(c, i)'
    BY DEF RowsInv
  <2>9. CASE c # col[t]
    <3>1. hist'[c] = hist[c]
      BY <1>0, <2>1, <2>5, <2>6, <2>9, AppendRows
    <3>2. Lag(c)' = Lag(c)
      BY <2>1, <2>4, <2>9 DEF Columns
    <3>3. Entry(c, i)' = Entry(c, i)
      BY <2>1, <3>1, <3>2 DEF Entry
    <3> QED
      BY <3>1, <3>3 DEF RowsInv
  <2>10. CASE c = col[t]
    <3>1. Lag(c) = 1 /\ Lag(c)' = 0
      BY <2>4, <2>10 DEF Columns
    <3>2. /\ Len(hist'[c]) = Len(hist[c]) + 1
          /\ \A j \in 1..Len(hist[c]) : hist'[c][j] = hist[c][j]
          /\ hist'[c][Len(hist[c]) + 1] = Row(arg[t], stamp[t])[c]
      BY <1>0, <2>1, <2>5, <2>6, <2>10, AppendRows
    <3>3. Entry(c, i)' = Row(credits[Len(credits) - 0 - (Len(hist[c]) + 1) + i], 0)[c]
      BY <2>1, <3>1, <3>2 DEF Entry
    <3>4. CASE i \in 1..Len(hist[c])
      <4>1. Entry(c, i) = Row(credits[Len(credits) - 1 - Len(hist[c]) + i], 0)[c]
        BY <3>1 DEF Entry
      <4>2. Len(credits) - 1 - Len(hist[c]) + i = Len(credits) - 0 - (Len(hist[c]) + 1) + i
        BY <1>0, <3>4
      <4> QED
        BY <3>2, <3>3, <3>4, <4>1, <4>2 DEF RowsInv
    <3>5. CASE i = Len(hist[c]) + 1
      <4>1. Len(credits) - 0 - (Len(hist[c]) + 1) + i = Len(credits)
        BY <1>0, <3>5
      <4>2. Row(arg[t], stamp[t])[c] = Row(arg[t], 0)[c]
        BY RowAtAnyTick
      <4> QED
        BY <2>7, <3>2, <3>3, <3>5, <4>1, <4>2
    <3> QED
      BY <1>0, <3>2, <3>4, <3>5
  <2> QED
    BY <2>9, <2>10
<1>4. ASSUME NEW t \in Threads, TrimColumn(t)
      PROVE  RowsInv'
  <2>1. pc[t] = "trim" /\ col[t] \in Columns /\ credits' = credits
    BY <1>0, <1>4 DEF TrimColumn
  <2>2. \A u \in Threads : pc[u] # "append" /\ pc'[u] # "append"
    <3>1. \A u \in Threads : pc[u] # "append"
      BY <2>1, Alone DEF Critical
    <3>2. pc' = pc \/ pc' = [pc EXCEPT ![t] = "publish"]
      BY <1>4 DEF TrimColumn, Goto
    <3> QED
      BY <1>0, <3>1, <3>2
  <2>3. \A c : Lag(c) = 0 /\ Lag(c)' = 0
    BY <2>2 DEF Lag
  <2>4. drop[t] = 1 /\ Len(hist[col[t]]) >= 1
    <3>1. /\ drop[t] = 1
          /\ Len(hist[col[t]]) = IF col[t] < col[t] THEN HistoryLimit ELSE HistoryLimit + 1
      BY <2>1 DEF ColumnsInv
    <3>2. col[t] \in Int
      BY <2>1 DEF Columns
    <3> QED
      BY <1>0, <3>1, <3>2
  <2>5. hist' = [hist EXCEPT ![col[t]] = DropFirst(@, 1)]
    BY <1>4, <2>4 DEF TrimColumn
  <2>6. SUFFICES ASSUME NEW c \in Columns \ {TickCol}, NEW i \in 1..Len(hist'[c])
                 PROVE  hist'[c][i] = Entry(c, i)'
    BY DEF RowsInv
  <2>7. CASE c # col[t]
    <3>1. hist'[c] = hist[c]
      BY <1>0, <2>1, <2>4, <2>5, <2>7, DropRows
    <3>2. Entry(c, i)' = Entry(c, i)
      BY <2>1, <2>3, <3>1 DEF Entry
    <3> QED
      BY <3>1, <3>2 DEF RowsInv
  <2>8. CASE c = col[t]
    <3>1. /\ Len(hist'[c]) = Len(hist[c]) - 1
          /\ \A j \in 1..(Len(hist[c]) - 1) : hist'[c][j] = hist[c][j + 1]
      BY <1>0, <2>1, <2>4, <2>5, <2>8, DropRows
    <3>2. i + 1 \in 1..Len(hist[c]) /\ hist'[c][i] = hist[c][i + 1]
      <4>1. i \in 1..(Len(hist[c]) - 1) /\ Len(hist[c]) \in Nat
        BY <1>0, <3>1
      <4>2. i + 1 \in 1..Len(hist[c])
        BY <4>1
      <4> QED
        BY <3>1, <4>1, <4>2
    <3>3. Entry(c, i)' = Row(credits[Len(credits) - 0 - (Len(hist[c]) - 1) + i], 0)[c]
      BY <2>1, <2>3, <3>1 DEF Entry
    <3>4. Entry(c, i + 1) = Row(credits[Len(credits) - 0 - Len(hist[c]) + (i + 1)], 0)[c]
      BY <2>3 DEF Entry
    <3>5. Len(credits) - 0 - (Len(hist[c]) - 1) + i = Len(credits) - 0 - Len(hist[c]) + (i + 1)
      BY <1>0, <3>1
    <3> QED
      BY <3>2, <3>3, <3>4, <3>5 DEF RowsInv
  <2> QED
    BY <2>7, <2>8
<1>5. ASSUME NEW t \in Threads, RecordPublish(t)
      PROVE  RowsInv'
  <2>1. /\ pc[t] = "publish" /\ pc' = [pc EXCEPT ![t] = "idle"]
        /\ hist' = hist /\ credits' = credits
        /\ \A u \in Threads : u # t => col'[u] = col[u]
    BY <1>0, <1>5 DEF RecordPublish, Return, Goto
  <2>2. pc'[t] = "idle" /\ \A u \in Threads : u # t => pc'[u] = pc[u]
    BY <1>0, <2>1
  <2>3. \A c : Lag(c)' = Lag(c)
    BY <2>1, <2>2 DEF Lag
  <2> QED
    BY <2>1, <2>3 DEF RowsInv, Entry
<1> QED
  BY <1>1, <1>2, <1>3, <1>4, <1>5, FourSteps

LEMMA NewestTickStep ==
  ASSUME StateInv, LockInv, NewestTickInv, [Next]_vars
  PROVE  NewestTickInv'
<1>0. /\ DOMAIN pc = Threads /\ DOMAIN col = Threads /\ DOMAIN stamp = Threads
      /\ \A t \in Threads : col[t] \in Columns /\ stamp[t] \in 0..MaxTick
      /\ hist \in [Columns -> Seq(Cell)] /\ TickCol \in Columns
      /\ Len(hist[TickCol]) \in Nat
  BY DEF StateInv, TypeOK, Table, TickCol, Columns
<1>1. CASE Quiet
  <2>1. \A u \in Threads : /\ pc'[u] = "append" <=> pc[u] = "append"
                           /\ pc[u] = "append" => col'[u] = col[u] /\ stamp'[u] = stamp[u]
    BY <1>1 DEF Quiet, Recording
  <2> QED
    BY <1>1, <2>1 DEF Quiet, NewestTickInv
<1>2. ASSUME NEW t \in Threads, RecordCredit(t)
      PROVE  NewestTickInv'
  <2>1. \A u \in Threads : pc'[u] = "append" => u = t
    BY <1>0, <1>2, Alone DEF RecordCredit, Goto, Critical
  <2>2. col'[t] = TickCol
    BY <1>0, <1>2 DEF RecordCredit, TickCol
  <2> QED
    BY <2>1, <2>2 DEF NewestTickInv, TickCol
<1>3. ASSUME NEW t \in Threads, AppendColumn(t)
      PROVE  NewestTickInv'
  <2>1. /\ pc[t] = "append" /\ stamp' = stamp /\ arg[t] \in Outcomes
    BY <1>3 DEF AppendColumn, StateInv, ArgInv
  <2>2. \A u \in Threads : pc'[u] = "append" => u = t
    BY <1>0, <1>3, <2>1, Alone DEF AppendColumn, Goto, Critical
  <2>3. hist' = [hist EXCEPT ![col[t]] = Append(@, Row(arg[t], stamp[t])[col[t]])]
    BY <1>3 DEF AppendColumn
  <2>4. Row(arg[t], stamp[t])[col[t]] \in Cell
    BY <1>0, <2>1, RowType
  <2>5. CASE col[t] = TickCol
    <3>1. /\ Len(hist'[TickCol]) = Len(hist[TickCol]) + 1
          /\ hist'[TickCol][Len(hist[TickCol]) + 1] = Row(arg[t], stamp[t])[TickCol]
      BY <1>0, <2>3, <2>4, <2>5, AppendRows
    <3>2. Row(arg[t], stamp[t])[TickCol] = stamp[t]
      BY DEF Row, TickCol
    <3> QED
      BY <2>1, <2>2, <3>1, <3>2 DEF NewestTickInv
  <2>6. CASE col[t] # TickCol
    <3>1. hist'[TickCol] = hist[TickCol]
      BY <1>0, <2>3, <2>4, <2>6, AppendRows
    <3>2. col[t] > TickCol
      <4>1. col[t] \in 1..5 /\ col[t] # 1
        BY <1>0, <2>6 DEF TickCol, Columns
      <4> QED
        BY <4>1 DEF TickCol
    <3>3. hist[TickCol][Len(hist[TickCol])] = stamp[t]
      BY <2>1, <3>2 DEF NewestTickInv
    <3> QED
      BY <2>1, <2>2, <3>1, <3>3 DEF NewestTickInv
  <2> QED
    BY <2>5, <2>6
<1>4. ASSUME NEW t \in Threads, TrimColumn(t)
      PROVE  NewestTickInv'
  <2>1. \A u \in Threads : pc[u] # "append"
    BY <1>4, Alone DEF TrimColumn, Critical
  <2>2. pc' = pc \/ pc' = [pc EXCEPT ![t] = "publish"]
    BY <1>4 DEF TrimColumn, Goto
  <2>3. \A u \in Threads : pc'[u] # "append"
    BY <1>0, <2>1, <2>2
  <2> QED
    BY <2>3 DEF NewestTickInv
<1>5. ASSUME NEW t \in Threads, RecordPublish(t)
      PROVE  NewestTickInv'
  <2>1. /\ pc' = [pc EXCEPT ![t] = "idle"] /\ hist' = hist
        /\ \A u \in Threads : u # t => col'[u] = col[u] /\ stamp'[u] = stamp[u]
    BY <1>0, <1>5 DEF RecordPublish, Return, Goto
  <2>2. pc'[t] = "idle" /\ \A u \in Threads : u # t => pc'[u] = pc[u]
    BY <1>0, <2>1
  <2> QED
    BY <2>1, <2>2 DEF NewestTickInv
<1> QED
  BY <1>1, <1>2, <1>3, <1>4, <1>5, FourSteps

-------------------------------------------------------------------------------

RecordedInv == LengthsInv /\ RowsInv /\ NewestTickInv /\ PublishInv

LEMMA InitRecorded == Init => RecordedInv
<1> SUFFICES ASSUME Init PROVE RecordedInv
  OBVIOUS
<1>1. /\ \A t \in Threads : pc[t] = "idle"
      /\ \A c \in Columns : hist[c] = <<>>
      /\ credits = <<>> /\ published = <<>>
  BY DEF Init, EmptyColumns
<1>2. Limited(0) = 0
  BY ConstantsAssumption DEF Limited
<1> QED
  BY <1>1, <1>2 DEF RecordedInv, LengthsInv, RowsInv, NewestTickInv, PublishInv, Recording

LEMMA RecordedInductive == Spec => [](IInv /\ RecordedInv)
<1>1. IInv /\ RecordedInv /\ [Next]_vars => RecordedInv'
  BY LengthsStep, RowsStep, NewestTickStep, PublishStep DEF IInv, RecordedInv
<1> QED
  BY <1>1, InitRecorded, Inductive, PTL DEF Spec

\* Whenever the lock is free the five lists hold, row by row and in order, the
\* last outcomes the posterior was credited with: all of them, or as many as the
\* history keeps.  The comment of _append_history (api.py:91-96), for any number
\* of writers.
THEOREM HistoryIsPosterior == Spec => []HistoryMatchesPosterior
<1>1. IInv /\ RecordedInv => HistoryMatchesPosterior
  <2> SUFFICES ASSUME IInv, LengthsInv, RowsInv, lock = Nobody
               PROVE  HistoryMatchesPosterior
    BY DEF HistoryMatchesPosterior, RecordedInv
  <2>1. \A t \in Threads : pc[t] \notin Critical
    BY ConstantsAssumption DEF IInv, LockInv
  <2>2. \A c \in Columns : Lag(c) = 0 /\ Len(hist[c]) = Limited(Len(credits))
    BY <2>1 DEF LengthsInv, Lag, Critical
  <2>3. TickCol \in Columns /\ Len(credits) \in Nat /\ Len(hist[TickCol]) \in Nat
    BY DEF TickCol, Columns, IInv, StateInv, TypeOK
  <2> DEFINE n == Len(hist[TickCol])
  <2>4. n = Limited(Len(credits)) /\ \A c \in Columns : Len(hist[c]) = n
    BY <2>2, <2>3
  <2>5. ASSUME NEW i \in 1..n, NEW c \in Columns \ {TickCol}
        PROVE  hist[c][i] = Row(credits[Len(credits) - n + i], 0)[c]
    <3>1. Len(credits) - 0 - n + i = Len(credits) - n + i
      BY <2>3
    <3> QED
      BY <2>2, <2>4, <3>1 DEF RowsInv, Entry
  <2> QED
    BY <2>4, <2>5 DEF HistoryMatchesPosterior, Limited
<1> QED
  BY <1>1, RecordedInductive, PTL

\* However many handlers record at once, each outcome is published once or is
\* still held by the one thread that recorded it.
THEOREM OneEventPerOutcome == Spec => []PublishedExactlyOnce
BY RecordedInductive, PublishedOrHeld, PTL DEF RecordedInv

-------------------------------------------------------------------------------
(* The refinement: recording is atomic and a copy is the log at one instant   *)

LogOf(h) ==
  LET n == Len(h[IssuerCol])
      Kept(c) == IF n > HistoryLimit
                 THEN DropFirst(h[c], Len(h[c]) - HistoryLimit)
                 ELSE h[c]
  IN [i \in 1..(IF n > HistoryLimit THEN HistoryLimit ELSE n) |->
        [c \in Columns |-> Kept(c)[i]]]

Credited ==
  IF \E t \in Threads : pc[t] = "append"
  THEN SubSeq(credits, 1, Len(credits) - 1)
  ELSE credits

Seen ==
  [t \in Threads |->
     IF view[t] = Nothing THEN Nothing
     ELSE [i \in DOMAIN view[t][IssuerCol] |-> [c \in Columns |-> view[t][c][i]]]]

\* The names above are what Log is instantiated with.
LEMMA LogMapping ==
  /\ Log!vars = <<LogOf(hist), Credited, Seen>>
  /\ Log!Init <=> LogOf(hist) = <<>> /\ Credited = <<>> /\ Seen = [t \in Threads |-> Nothing]
  /\ \A e, now : Log!Record(e, now) <=>
       /\ \A i \in DOMAIN LogOf(hist) : LogOf(hist)[i][1] <= now
       /\ LogOf(hist)' = Log!LastN(Append(LogOf(hist), Row(e, now)), HistoryLimit)
       /\ Credited' = Append(Credited, e)
       /\ Seen' = Seen
  /\ \A t : Log!Read(t) <=>
       /\ Seen' = [Seen EXCEPT ![t] = IF LogOf(hist) = <<>> THEN Nothing ELSE LogOf(hist)]
       /\ LogOf(hist)' = LogOf(hist) /\ Credited' = Credited
BY Zenon DEF Log!vars, Log!Init, Log!Record, Log!Read, LogOf, Credited, Seen

\* The log while nothing has to be trimmed ...
LEMMA LogShort ==
  ASSUME NEW h, NEW n \in Nat, n <= HistoryLimit, Len(h[IssuerCol]) = n
  PROVE  LogOf(h) = [i \in 1..n |-> [c \in Columns |-> h[c][i]]]
<1>1. ~(n > HistoryLimit)
  BY ConstantsAssumption
<1> QED
  BY <1>1 DEF LogOf

\* ... and while something has, in the columns where it is not done yet.
LEMMA LogLong ==
  ASSUME NEW h \in Table, Len(h[IssuerCol]) > HistoryLimit,
         \A c \in Columns : Len(h[c]) \in {HistoryLimit, HistoryLimit + 1}
  PROVE  LogOf(h) = [i \in 1..HistoryLimit |->
                       [c \in Columns |-> h[c][i + (Len(h[c]) - HistoryLimit)]]]
<1>1. ASSUME NEW c \in Columns, NEW i \in 1..HistoryLimit
      PROVE  DropFirst(h[c], Len(h[c]) - HistoryLimit)[i]
               = h[c][i + (Len(h[c]) - HistoryLimit)]
  <2>1. h[c] \in Seq(Cell) /\ HistoryLimit \in Nat
    BY ConstantsAssumption DEF Table
  <2>2. CASE Len(h[c]) = HistoryLimit
    BY <2>1, <2>2 DEF DropFirst
  <2>3. CASE Len(h[c]) = HistoryLimit + 1
    BY <2>1, <2>3 DEF DropFirst
  <2> QED
    BY <2>2, <2>3
<1>2. LogOf(h) = [i \in 1..HistoryLimit |->
        [c \in Columns |-> DropFirst(h[c], Len(h[c]) - HistoryLimit)[i]]]
  BY DEF LogOf
<1> QED
  BY <1>1, <1>2

\* Only the last copy of an investigation returns one.
LEMMA ViewStep ==
  ASSUME [Next]_vars
  PROVE  view' = view \/ \E t \in Threads : CopyLast(t)
BY DEF Next, vars, local, Arrive, Serve, Tick, Quiescent, RouteArrives, OutcomeRejected,
       OutcomeArrives, HistoryRequested, RouteBlocked, RouteDecide, RouteCountRead,
       RouteCountWrite, RecordDecay, RecordCredit, AppendColumn, TrimColumn, RecordPublish,
       CopyFirst, CopyNext

LEMMA LogMappingNext == Log!vars' = <<LogOf(hist'), Credited', Seen'>>
BY DEF Log!vars, LogOf, Credited, Seen

\* A row is put behind the others.
LEMMA AppendToRows ==
  ASSUME NEW n \in Nat, NEW s, NEW row, NEW h,
         s = [i \in 1..n |-> [c \in Columns |-> h[c][i]]],
         row = [c \in Columns |-> h[c][n + 1]]
  PROVE  Append(s, row) = [i \in 1..(n + 1) |-> [c \in Columns |-> h[c][i]]]
<1> DEFINE S == {s[i] : i \in 1..n} \cup {row}
<1>1. s \in Seq(S) /\ Len(s) = n /\ row \in S
  <2>1. s \in [1..n -> S]
    OBVIOUS
  <2> HIDE DEF S
  <2>2. s \in Seq(S)
    BY <2>1, SeqDef
  <2> QED
    BY <2>1, <2>2 DEF S
<1> HIDE DEF S
<1>2. Append(s, row) = [i \in 1..(n + 1) |-> IF i = n + 1 THEN row ELSE s[i]]
  <2>1. /\ Append(s, row) = [i \in 1..(n + 1) |-> Append(s, row)[i]]
        /\ Append(s, row)[n + 1] = row
        /\ \A i \in 1..n : Append(s, row)[i] = s[i]
    <3>1. Len(Append(s, row)) = n + 1 /\ Append(s, row) \in Seq(S)
      BY <1>1
    <3>2. Append(s, row)[n + 1] = row
      BY <1>1
    <3>3. \A i \in 1..n : Append(s, row)[i] = s[i]
      BY <1>1
    <3>4. Append(s, row) \in [1..(n + 1) -> S]
      BY <3>1, LenProperties
    <3>5. Append(s, row) = [i \in 1..(n + 1) |-> Append(s, row)[i]]
      BY <3>4
    <3> QED
      BY <3>2, <3>3, <3>5
  <2>2. ASSUME NEW i \in 1..(n + 1)
        PROVE  Append(s, row)[i] = IF i = n + 1 THEN row ELSE s[i]
    BY <2>1
  <2> QED
    BY <2>1, <2>2, Zenon
<1>3. ASSUME NEW i \in 1..(n + 1)
      PROVE  (IF i = n + 1 THEN row ELSE s[i]) = [c \in Columns |-> h[c][i]]
  <2>1. i # n + 1 => i \in 1..n
    OBVIOUS
  <2> QED
    BY <2>1
<1> QED
  BY <1>2, <1>3

\* What a reader copies is not None.
LEMMA CopyIsSomething ==
  ASSUME NEW h \in Table PROVE h # Nothing
<1> DEFINE Cells == {Row(r, n)[c] : r \in Reports, n \in 0..MaxTick, c \in Columns}
<1>1. Cell \subseteq Cells
  BY DEF Cell, Outcomes
<1> HIDE DEF Cells
<1>2. \A s \in Seq(Cell) : s \in Seq(Cells)
  BY <1>1
<1>3. h \in [Columns -> Seq(Cells)]
  BY <1>2 DEF Table
<1> QED
  BY <1>3, NothingAssumption DEF Cells

LEMMA StepRefines ==
  ASSUME IInv, RecordedInv, [Next]_vars
  PROVE  [Log!Next]_(Log!vars)
<1>0. /\ DOMAIN pc = Threads /\ DOMAIN col = Threads /\ DOMAIN view = Threads
      /\ \A t \in Threads : col[t] \in Columns
      /\ hist \in Table /\ hist \in [Columns -> Seq(Cell)]
      /\ \A c \in Columns : Len(hist[c]) \in Nat
      /\ HistoryLimit \in Nat \ {0}
      /\ credits \in Seq(Outcomes) /\ Len(credits) \in Nat
      /\ TickCol \in Columns /\ IssuerCol \in Columns
  <2>1. TickCol \in Columns /\ IssuerCol \in Columns
    BY DEF Columns, TickCol, IssuerCol
  <2>2. hist \in Table /\ credits \in Seq(Outcomes) /\ Len(credits) \in Nat
    BY DEF IInv, StateInv, TypeOK
  <2>3. hist \in [Columns -> Seq(Cell)] /\ \A c \in Columns : Len(hist[c]) \in Nat
    BY <2>2 DEF Table
  <2>4. /\ DOMAIN pc = Threads /\ DOMAIN col = Threads /\ DOMAIN view = Threads
        /\ \A t \in Threads : col[t] \in Columns
    BY DEF IInv, StateInv, TypeOK
  <2> QED
    BY <2>1, <2>2, <2>3, <2>4, ConstantsAssumption
<1>c. \A c \in Columns : c \in 1..5 /\ c <= IssuerCol /\ ~(IssuerCol < c) /\ ~(c < c)
  BY DEF Columns, IssuerCol
<1>i. /\ StateInv /\ LockInv /\ ColumnsInv /\ StampInv /\ CopyInv
      /\ LengthsInv /\ RowsInv /\ NewestTickInv
  BY DEF IInv, RecordedInv
<1>s. ASSUME LogOf(hist') = LogOf(hist), Credited' = Credited, view' = view
      PROVE  [Log!Next]_(Log!vars)
  <2>1. Seen' = Seen
    BY <1>s DEF Seen
  <2>2. Log!vars' = Log!vars
    BY <1>s, <2>1, LogMapping, LogMappingNext
  <2> QED
    BY <2>2
<1>1. CASE Quiet /\ view' = view
  <2>1. \A u \in Threads : pc'[u] = "append" <=> pc[u] = "append"
    BY <1>1 DEF Quiet, Recording
  <2>2. Credited' = Credited
    BY <1>1, <2>1 DEF Quiet, Credited
  <2> QED
    BY <1>1, <1>s, <2>2 DEF Quiet
<1>2. ASSUME NEW t \in Threads, RecordCredit(t)
      PROVE  [Log!Next]_(Log!vars)
  <2>1. /\ pc[t] = "credit" /\ pc'[t] = "append" /\ arg[t] \in Outcomes
        /\ credits' = Append(credits, arg[t]) /\ hist' = hist /\ view' = view
    BY <1>0, <1>2, <1>i DEF RecordCredit, Goto, StateInv, ArgInv
  <2>2. \A u \in Threads : pc[u] # "append"
    BY <1>i, <2>1, Alone DEF Critical
  <2>3. SubSeq(credits', 1, Len(credits') - 1) = credits
    BY <1>0, <2>1
  <2>4. Credited' = Credited
    BY <2>1, <2>2, <2>3 DEF Credited
  <2> QED
    BY <1>s, <2>1, <2>4
<1>3. ASSUME NEW t \in Threads, AppendColumn(t)
      PROVE  [Log!Next]_(Log!vars)
  <2> DEFINE n == Len(hist[IssuerCol])
  <2>1. /\ pc[t] = "append" /\ credits' = credits /\ view' = view
        /\ arg[t] \in Outcomes /\ stamp[t] \in 0..MaxTick
    BY <1>0, <1>3, <1>i DEF AppendColumn, StateInv, ArgInv, TypeOK
  <2>e. PICK e \in Outcomes, now \in 0..MaxTick : e = arg[t] /\ now = stamp[t]
    BY <2>1
  <2>2. \A u \in Threads : pc[u] = "append" => u = t
    BY <1>i, <2>1, Alone DEF Critical
  <2>3. /\ Len(credits) >= 1 /\ credits[Len(credits)] = arg[t]
        /\ n = Limited(Len(credits) - 1)
        /\ \A c \in Columns : Len(hist[c]) = n + (IF c < col[t] THEN 1 ELSE 0)
    <3>1. ~(IssuerCol < col[t])
      BY <1>0, <1>c
    <3>2. Limited(Len(credits) - 1) \in Int
      BY <1>0 DEF Limited
    <3> QED
      BY <1>0, <1>i, <2>1, <3>1, <3>2 DEF LengthsInv
  <2>4. n \in Nat /\ n <= HistoryLimit
    BY <1>0, <2>3 DEF Limited
  <2> HIDE DEF n
  <2>5. LogOf(hist) = [i \in 1..n |-> [c \in Columns |-> hist[c][i]]]
    BY <2>4, LogShort DEF n
  <2>6. /\ hist' = [hist EXCEPT ![col[t]] = Append(@, Row(arg[t], stamp[t])[col[t]])]
        /\ Row(arg[t], stamp[t])[col[t]] \in Cell
    BY <1>0, <1>3, <2>1, RowType DEF AppendColumn
  <2>7. \A c \in Columns :
          /\ Len(hist'[c]) = n + (IF c <= col[t] THEN 1 ELSE 0)
          /\ \A i \in 1..Len(hist[c]) : hist'[c][i] = hist[c][i]
          /\ c = col[t] => hist'[c][n + 1] = Row(arg[t], stamp[t])[c]
          /\ c # col[t] => hist'[c] = hist[c]
    <3> SUFFICES ASSUME NEW c \in Columns
                 PROVE  /\ Len(hist'[c]) = n + (IF c <= col[t] THEN 1 ELSE 0)
                        /\ \A i \in 1..Len(hist[c]) : hist'[c][i] = hist[c][i]
                        /\ c = col[t] => hist'[c][n + 1] = Row(arg[t], stamp[t])[c]
                        /\ c # col[t] => hist'[c] = hist[c]
      OBVIOUS
    <3>1. /\ Len(hist'[c]) = IF c = col[t] THEN Len(hist[c]) + 1 ELSE Len(hist[c])
          /\ \A i \in 1..Len(hist[c]) : hist'[c][i] = hist[c][i]
          /\ c = col[t] => hist'[c][Len(hist[c]) + 1] = Row(arg[t], stamp[t])[c]
          /\ c # col[t] => hist'[c] = hist[c]
      BY <1>0, <2>6, AppendRows
    <3>2. c \in Int /\ col[t] \in Int
      BY <1>0 DEF Columns
    <3>3. Len(hist[c]) = n + (IF c < col[t] THEN 1 ELSE 0)
      BY <2>3
    <3>4. Len(hist'[c]) = n + (IF c <= col[t] THEN 1 ELSE 0)
      BY <2>4, <3>1, <3>2, <3>3
    <3>5. c = col[t] => Len(hist[c]) = n
      BY <2>4, <3>2, <3>3
    <3> QED
      BY <3>1, <3>4, <3>5
  <2>8. \A c \in Columns, i \in 1..n : hist'[c][i] = hist[c][i]
    <3> SUFFICES ASSUME NEW c \in Columns, NEW i \in 1..n PROVE hist'[c][i] = hist[c][i]
      OBVIOUS
    <3>1. i \in 1..Len(hist[c])
      BY <2>3, <2>4
    <3> QED
      BY <2>7, <3>1
  <2>9. CASE col[t] < IssuerCol
    <3>1. pc' = pc /\ hist'[IssuerCol] = hist[IssuerCol]
      BY <1>0, <1>3, <2>7, <2>9 DEF AppendColumn, IssuerCol
    <3>2. Credited' = Credited
      BY <2>1, <3>1 DEF Credited
    <3>3. LogOf(hist') = [i \in 1..n |-> [c \in Columns |-> hist'[c][i]]]
      BY <2>4, <3>1, LogShort DEF n
    <3>4. LogOf(hist') = LogOf(hist)
      BY <2>5, <2>8, <3>3
    <3> QED
      BY <1>s, <2>1, <3>2, <3>4
  <2>10. CASE col[t] = IssuerCol
    <3> DEFINE row == Row(arg[t], stamp[t])
    <3>1. \A c \in Columns : Len(hist'[c]) = n + 1
      BY <2>4, <2>7, <2>10 DEF Columns, IssuerCol
    <3>2. \A c \in Columns : hist'[c][n + 1] = row[c]
      <4> SUFFICES ASSUME NEW c \in Columns PROVE hist'[c][n + 1] = row[c]
        OBVIOUS
      <4>1. CASE c = IssuerCol
        BY <2>7, <2>10, <4>1
      <4>2. CASE c # IssuerCol
        <5>1. c < col[t] /\ ~(col[t] <= c)
          BY <2>10, <4>2 DEF Columns, IssuerCol
        <5>2. Len(hist[c]) = n + 1 /\ hist'[c] = hist[c]
          BY <2>3, <2>4, <2>7, <2>10, <4>2, <5>1
        <5>3. CASE c = TickCol
          <6>1. hist[TickCol][Len(hist[TickCol])] = stamp[t]
            BY <1>i, <2>1, <2>10 DEF NewestTickInv, TickCol, IssuerCol
          <6>2. row[c] = stamp[t]
            BY <5>3 DEF Row, TickCol
          <6> QED
            BY <5>2, <5>3, <6>1, <6>2
        <5>4. CASE c # TickCol
          <6>1. Lag(c) = 0
            BY <2>2, <5>1 DEF Lag
          <6>2. hist[c][n + 1] = Entry(c, n + 1)
            BY <1>i, <2>4, <5>2, <5>4 DEF RowsInv
          <6>3. Entry(c, n + 1) = Row(credits[Len(credits) - 0 - (n + 1) + (n + 1)], 0)[c]
            BY <5>2, <6>1 DEF Entry
          <6>4. Len(credits) - 0 - (n + 1) + (n + 1) = Len(credits)
            BY <1>0, <2>4
          <6>5. row[c] = Row(arg[t], 0)[c]
            BY <5>4, RowAtAnyTick
          <6> QED
            BY <2>3, <5>2, <6>2, <6>3, <6>4, <6>5
        <5> QED
          BY <5>3, <5>4
      <4> QED
        BY <4>1, <4>2
    <3>3. row = [c \in Columns |-> row[c]]
      BY DEF Row, Columns
    <3> HIDE DEF row
    <3>4. Append(LogOf(hist), row) = [i \in 1..(n + 1) |-> [c \in Columns |-> hist'[c][i]]]
      <4>1. row = [c \in Columns |-> hist'[c][n + 1]]
        BY <3>2, <3>3
      <4>2. LogOf(hist) = [i \in 1..n |-> [c \in Columns |-> hist'[c][i]]]
        BY <2>5, <2>8
      <4> QED
        BY <2>4, <4>1, <4>2, AppendToRows
    <3>5. LogOf(hist') = Log!LastN(Append(LogOf(hist), row), HistoryLimit)
      <4>1. CASE n + 1 <= HistoryLimit
        <5>1. LogOf(hist') = [i \in 1..(n + 1) |-> [c \in Columns |-> hist'[c][i]]]
          <6>1. n + 1 \in Nat /\ Len(hist'[IssuerCol]) = n + 1
            BY <1>0, <2>4, <3>1
          <6> QED
            BY <4>1, <6>1, LogShort
        <5>2. Len(Append(LogOf(hist), row)) = n + 1
          BY <2>4, <3>4
        <5> QED
          BY <3>4, <4>1, <5>1, <5>2 DEF Log!LastN
      <4>2. CASE n + 1 > HistoryLimit
        <5>1. n = HistoryLimit
          BY <1>0, <2>4, <4>2
        <5>2. hist' \in Table
          BY <1>i, TypeStep DEF StateInv
        <5>3. LogOf(hist') = [i \in 1..HistoryLimit |->
                 [c \in Columns |-> hist'[c][i + (Len(hist'[c]) - HistoryLimit)]]]
          <6>1. \A c \in Columns : Len(hist'[c]) \in {HistoryLimit, HistoryLimit + 1}
            BY <3>1, <5>1
          <6>2. Len(hist'[IssuerCol]) > HistoryLimit
            BY <1>0, <3>1, <4>2
          <6> QED
            BY <5>2, <6>1, <6>2, LogLong
        <5>4. \A c \in Columns : Len(hist'[c]) - HistoryLimit = 1
          BY <1>0, <3>1, <5>1
        <5>5. LogOf(hist') = [i \in 1..n |-> [c \in Columns |-> hist'[c][i + 1]]]
          BY <5>1, <5>3, <5>4
        <5>6. Log!LastN(Append(LogOf(hist), row), HistoryLimit)
                = [i \in 1..n |-> [c \in Columns |-> hist'[c][i + 1]]]
          <6>1. n \in Nat \ {0} /\ HistoryLimit = n
            BY <1>0, <5>1
          <6> DEFINE h == hist'
                     longer == Append(LogOf(hist), row)
          <6>2. longer = [i \in 1..(n + 1) |-> [c \in Columns |-> h[c][i]]]
            BY <3>4
          <6> HIDE DEF h, longer
          <6>3. Log!LastN(longer, n) = [i \in 1..n |-> [c \in Columns |-> h[c][i + 1]]]
            <7>1. Len(longer) = n + 1 /\ ~(Len(longer) <= n) /\ Len(longer) - n + 1 = 2
              BY <6>1, <6>2
            <7>2. SubSeq(longer, 2, n + 1) = [i \in 1..n |-> longer[i + 1]]
              BY <6>1, <7>1
            <7>3. ASSUME NEW i \in 1..n
                  PROVE  longer[i + 1] = [c \in Columns |-> h[c][i + 1]]
              <8>1. i + 1 \in 1..(n + 1)
                BY <6>1
              <8> QED
                BY <6>2, <8>1
            <7>4. Log!LastN(longer, n) = SubSeq(longer, 2, n + 1)
              BY <7>1 DEF Log!LastN
            <7> QED
              BY <7>2, <7>3, <7>4
          <6> QED
            BY <6>1, <6>3 DEF h, longer
        <5> QED
          BY <5>5, <5>6
      <4> QED
        BY <1>0, <2>4, <4>1, <4>2
    <3>6. Credited' = Append(Credited, arg[t])
      <4>1. \A u \in Threads : pc'[u] # "append"
        <5>1. pc' = [pc EXCEPT ![t] = "trim"] \/ pc' = [pc EXCEPT ![t] = "publish"]
          BY <1>3, <2>10 DEF AppendColumn, Goto, IssuerCol
        <5> QED
          BY <1>0, <2>2, <5>1
      <4>2. Credited' = credits /\ Credited = SubSeq(credits, 1, Len(credits) - 1)
        BY <2>1, <4>1 DEF Credited
      <4>3. credits = Append(SubSeq(credits, 1, Len(credits) - 1), credits[Len(credits)])
        BY <1>0, <2>3
      <4> QED
        BY <2>3, <4>2, <4>3
    <3>7. \A i \in DOMAIN LogOf(hist) : LogOf(hist)[i][1] <= stamp[t]
      <4> SUFFICES ASSUME NEW i \in 1..n PROVE hist[TickCol][i] <= stamp[t]
        BY <1>0, <2>5 DEF TickCol
      <4>1. Len(hist[TickCol]) = n + 1 /\ hist[TickCol][n + 1] = stamp[t]
        <5>1. Len(hist[TickCol]) = n + 1
          BY <1>0, <2>3, <2>4, <2>10 DEF TickCol, IssuerCol
        <5> QED
          BY <1>i, <2>1, <2>10, <5>1 DEF NewestTickInv, TickCol, IssuerCol
      <4>2. i \in DOMAIN hist[TickCol] /\ n + 1 \in DOMAIN hist[TickCol] /\ i <= n + 1
        BY <1>0, <2>4, <4>1
      <4> QED
        BY <1>i, <4>1, <4>2 DEF StampInv, Sorted
    <3>8. Seen' = Seen
      BY <2>1 DEF Seen
    <3>9. /\ \A i \in DOMAIN LogOf(hist) : LogOf(hist)[i][1] <= now
          /\ LogOf(hist)' = Log!LastN(Append(LogOf(hist), Row(e, now)), HistoryLimit)
          /\ Credited' = Append(Credited, e)
          /\ Seen' = Seen
      BY <2>e, <3>5, <3>6, <3>7, <3>8 DEF row, LogOf
    <3>10. Log!Record(e, now)
      BY <3>9, LogMapping, Zenon
    <3> QED
      BY <3>10 DEF Log!Next
  <2>11. col[t] \in 1..5
    BY <1>0, <1>c
  <2> QED
    BY <2>9, <2>10, <2>11 DEF IssuerCol
<1>4. ASSUME NEW t \in Threads, TrimColumn(t)
      PROVE  [Log!Next]_(Log!vars)
  <2>1. pc[t] = "trim" /\ credits' = credits /\ view' = view
    BY <1>4 DEF TrimColumn
  <2>2. \A u \in Threads : pc[u] # "append" /\ pc'[u] # "append"
    <3>1. \A u \in Threads : pc[u] # "append"
      BY <1>i, <2>1, Alone DEF Critical
    <3>2. pc' = pc \/ pc' = [pc EXCEPT ![t] = "publish"]
      BY <1>4 DEF TrimColumn, Goto
    <3> QED
      BY <1>0, <3>1, <3>2
  <2>3. Credited' = Credited
    BY <2>1, <2>2 DEF Credited
  <2>4. /\ drop[t] = 1
        /\ \A c \in Columns :
             Len(hist[c]) = IF c < col[t] THEN HistoryLimit ELSE HistoryLimit + 1
    BY <1>i, <2>1 DEF ColumnsInv
  <2>5. hist' = [hist EXCEPT ![col[t]] = DropFirst(@, 1)]
    BY <1>4, <2>4 DEF TrimColumn
  <2>6. Len(hist[col[t]]) = HistoryLimit + 1 /\ Len(hist[IssuerCol]) = HistoryLimit + 1
    <3>1. ~(col[t] < col[t]) /\ ~(IssuerCol < col[t]) /\ col[t] \in Columns
      BY <1>0, <1>c
    <3> QED
      BY <1>0, <2>4, <3>1
  <2>7. \A c \in Columns :
          /\ Len(hist'[c]) = IF c = col[t] THEN Len(hist[c]) - 1 ELSE Len(hist[c])
          /\ c = col[t] => \A i \in 1..(Len(hist[c]) - 1) : hist'[c][i] = hist[c][i + 1]
          /\ c # col[t] => hist'[c] = hist[c]
    <3> SUFFICES ASSUME NEW c \in Columns
                 PROVE  /\ Len(hist'[c]) = IF c = col[t] THEN Len(hist[c]) - 1 ELSE Len(hist[c])
                        /\ c = col[t] => \A i \in 1..(Len(hist[c]) - 1) :
                                          hist'[c][i] = hist[c][i + 1]
                        /\ c # col[t] => hist'[c] = hist[c]
      OBVIOUS
    <3>1. Len(hist[col[t]]) >= 1
      BY <1>0, <2>6
    <3> QED
      BY <1>0, <2>5, <3>1, DropRows, SMTT(30)
  <2> DEFINE Rows == [i \in 1..HistoryLimit |->
                        [c \in Columns |-> hist[c][i + (Len(hist[c]) - HistoryLimit)]]]
  <2>8. LogOf(hist) = Rows
    <3>1. \A c \in Columns : Len(hist[c]) \in {HistoryLimit, HistoryLimit + 1}
      BY <2>4
    <3>2. Len(hist[IssuerCol]) > HistoryLimit
      BY <1>0, <2>6
    <3> QED
      BY <1>0, <3>1, <3>2, LogLong
  <2>9. \A c \in Columns, i \in 1..HistoryLimit :
          hist'[c][i + (Len(hist'[c]) - HistoryLimit)]
            = hist[c][i + (Len(hist[c]) - HistoryLimit)]
    <3> SUFFICES ASSUME NEW c \in Columns, NEW i \in 1..HistoryLimit
                 PROVE  hist'[c][i + (Len(hist'[c]) - HistoryLimit)]
                          = hist[c][i + (Len(hist[c]) - HistoryLimit)]
      OBVIOUS
    <3>1. CASE c # col[t]
      BY <2>7, <3>1
    <3>2. CASE c = col[t]
      <4>1. Len(hist[c]) = HistoryLimit + 1 /\ Len(hist'[c]) = HistoryLimit
        BY <1>0, <2>6, <2>7, <3>2
      <4>2. /\ i + (Len(hist'[c]) - HistoryLimit) = i
            /\ i + (Len(hist[c]) - HistoryLimit) = i + 1
            /\ i \in 1..(Len(hist[c]) - 1)
        BY <1>0, <4>1
      <4> QED
        BY <2>7, <3>2, <4>2
    <3> QED
      BY <3>1, <3>2
  <2>10. LogOf(hist') = Rows
    <3>1. CASE col[t] # IssuerCol
      <4>1. hist' \in Table
        BY <1>i, TypeStep DEF StateInv
      <4>2. \A c \in Columns : Len(hist'[c]) \in {HistoryLimit, HistoryLimit + 1}
        BY <1>0, <2>4, <2>6, <2>7
      <4>3. Len(hist'[IssuerCol]) > HistoryLimit
        BY <1>0, <2>6, <2>7, <3>1
      <4>4. LogOf(hist') = [i \in 1..HistoryLimit |->
               [c \in Columns |-> hist'[c][i + (Len(hist'[c]) - HistoryLimit)]]]
        BY <4>1, <4>2, <4>3, LogLong
      <4> QED
        BY <2>9, <4>4
    <3>2. CASE col[t] = IssuerCol
      <4>1. \A c \in Columns : Len(hist'[c]) = HistoryLimit
        <5> SUFFICES ASSUME NEW c \in Columns PROVE Len(hist'[c]) = HistoryLimit
          OBVIOUS
        <5>1. c # IssuerCol => c < IssuerCol
          BY DEF Columns, IssuerCol
        <5> QED
          BY <1>0, <2>4, <2>6, <2>7, <3>2, <5>1
      <4>2. LogOf(hist') = [i \in 1..HistoryLimit |-> [c \in Columns |-> hist'[c][i]]]
        <5>1. HistoryLimit \in Nat /\ HistoryLimit <= HistoryLimit
          BY <1>0
        <5>2. Len(hist'[IssuerCol]) = HistoryLimit
          BY <4>1 DEF Columns, IssuerCol
        <5> QED
          BY <5>1, <5>2, LogShort
      <4>3. \A c \in Columns, i \in 1..HistoryLimit :
              i + (Len(hist'[c]) - HistoryLimit) = i
        <5>1. \A i \in 1..HistoryLimit : i + (HistoryLimit - HistoryLimit) = i
          BY <1>0
        <5> QED
          BY <4>1, <5>1
      <4>4. \A c \in Columns, i \in 1..HistoryLimit :
              hist'[c][i] = hist[c][i + (Len(hist[c]) - HistoryLimit)]
        BY <2>9, <4>3
      <4> QED
        BY <4>2, <4>4
    <3> QED
      BY <3>1, <3>2
  <2> QED
    BY <1>s, <2>1, <2>3, <2>8, <2>10
<1>5. ASSUME NEW t \in Threads, RecordPublish(t)
      PROVE  [Log!Next]_(Log!vars)
  <2>1. /\ pc[t] = "publish" /\ pc' = [pc EXCEPT ![t] = "idle"]
        /\ hist' = hist /\ credits' = credits /\ view' = view
    BY <1>5 DEF RecordPublish, Return, Goto
  <2>2. \A u \in Threads : pc'[u] = "append" <=> pc[u] = "append"
    BY <1>0, <2>1
  <2>3. Credited' = Credited
    BY <2>1, <2>2 DEF Credited
  <2> QED
    BY <1>s, <2>1, <2>3
<1>6. ASSUME NEW t \in Threads, CopyLast(t)
      PROVE  [Log!Next]_(Log!vars)
  <2> DEFINE got == [copy[t] EXCEPT ![IssuerCol] = hist[IssuerCol]]
  <2>1. /\ pc[t] = "copy" /\ col[t] = IssuerCol /\ hist' = hist /\ credits' = credits
        /\ view' = [view EXCEPT ![t] = IF got[TickCol] = <<>> THEN Nothing ELSE got]
    BY <1>6 DEF CopyLast
  <2>2. \A u \in Threads : pc[u] \in Critical => u = t
    BY <1>i, <2>1, Alone DEF Critical
  <2>3. \A u \in Threads : pc[u] \notin {"append", "trim"} /\ pc'[u] # "append"
    BY <1>0, <1>6, <2>1, <2>2 DEF CopyLast, Return, Goto, Critical
  <2>4. Credited' = Credited
    BY <2>1, <2>3 DEF Credited
  <2>5. got = hist
    <3>1. DOMAIN got = Columns /\ DOMAIN hist = Columns
      BY <1>0, <1>i DEF CopyInv
    <3>2. \A c \in Columns : got[c] = hist[c]
      BY <1>0, <1>i, <2>1 DEF CopyInv, Columns, IssuerCol
    <3>3. got = [c \in Columns |-> got[c]] /\ hist = [c \in Columns |-> hist[c]]
      BY <1>0, <3>1
    <3> QED
      BY <3>2, <3>3
  <2> HIDE DEF got
  <2>6. PICK n \in 0..HistoryLimit : \A c \in Columns : Len(hist[c]) = n
    BY <1>i, <2>3 DEF ColumnsInv
  <2>7. LogOf(hist) = [i \in 1..n |-> [c \in Columns |-> hist[c][i]]]
    BY <1>0, <2>6, LogShort
  <2>8. hist[TickCol] = <<>> <=> n = 0
    BY <1>0, <2>6
  <2>9. LogOf(hist) = <<>> <=> n = 0
    BY <2>6, <2>7
  <2>10. hist # Nothing
    BY <1>0, CopyIsSomething
  <2>11. DOMAIN hist[IssuerCol] = 1..n
    BY <1>0, <2>6
  <2>12. Seen' = [Seen EXCEPT ![t] = IF LogOf(hist) = <<>> THEN Nothing ELSE LogOf(hist)]
    <3>1. \A u \in Threads : u # t => view'[u] = view[u]
      BY <1>0, <2>1
    <3>2. view'[t] = IF n = 0 THEN Nothing ELSE hist
      BY <1>0, <2>1, <2>5, <2>8
    <3>3. CASE n = 0
      BY <2>9, <3>1, <3>2, <3>3 DEF Seen
    <3>4. CASE n # 0
      <4>1. view'[t] = hist /\ LogOf(hist) # <<>>
        BY <2>9, <3>2, <3>4
      <4>2. Seen'[t] = LogOf(hist)
        BY <2>7, <2>10, <2>11, <4>1 DEF Seen
      <4>3. \A u \in Threads : u # t => Seen'[u] = Seen[u]
        BY <3>1 DEF Seen
      <4>4. Seen' = [u \in Threads |-> Seen'[u]] /\ Seen = [u \in Threads |-> Seen[u]]
        BY DEF Seen
      <4> QED
        BY <4>1, <4>2, <4>3, <4>4
    <3> QED
      BY <3>3, <3>4
  <2>13. Log!Read(t)
    BY <2>1, <2>4, <2>12, LogMapping
  <2> QED
    BY <2>13 DEF Log!Next
<1> QED
  BY <1>i, <1>1, <1>2, <1>3, <1>4, <1>5, <1>6, FourSteps, ViewStep

\* Recording an outcome, whose credit, five appends and five deletions interleave
\* with every other handler, is one step of OutcomeLog, and what history() copies
\* in five steps is the log at one instant.
THEOREM RefinesOutcomeLog == Spec => ImplementsOutcomeLog
<1>1. Init => Log!Init
  <2> SUFFICES ASSUME Init PROVE Log!Init
    OBVIOUS
  <2>1. /\ \A c \in Columns : hist[c] = <<>>
        /\ credits = <<>> /\ \A t \in Threads : pc[t] = "idle" /\ view[t] = Nothing
        /\ IssuerCol \in Columns
    BY DEF Init, EmptyColumns, Columns, IssuerCol
  <2>2. LogOf(hist) = <<>>
    <3>1. 0 \in Nat /\ 0 <= HistoryLimit /\ Len(hist[IssuerCol]) = 0
      BY <2>1, ConstantsAssumption
    <3>2. LogOf(hist) = [i \in 1..0 |-> [c \in Columns |-> hist[c][i]]]
      BY <3>1, LogShort
    <3> QED
      BY <3>2
  <2> QED
    BY <2>1, <2>2, LogMapping DEF Credited, Seen
<1> QED
  BY <1>1, StepRefines, RecordedInductive, PTL DEF Spec, ImplementsOutcomeLog, Log!Spec

===============================================================================
