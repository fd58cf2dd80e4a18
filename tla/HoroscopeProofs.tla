-------------------------- MODULE HoroscopeProofs --------------------------
(***************************************************************************)
(* Proofs about Horoscope, for every set of birth details and every number *)
(* of requests.                                                            *)
(***************************************************************************)
EXTENDS Horoscope, TLAPS

\* The program, the chart and the labels are of complete inputs, and a command that marks
\* the row calculated has read a chart.
ChartsComplete ==
  /\ \A c \in {exe, chart, derived} : c # NoChart => Ready(c)
  /\ \A w \in Workers : At(w, "mark") => req[w].seen # NoChart /\ Ready(req[w].seen)

ChartInv == TypeOK /\ ChartsComplete /\ ChartMatchesInputs /\ CalculatedMeansDone

----------------------------------------------------------------------------
(* Types.                                                                    *)

LEMMA OrType ==
  ASSUME NEW S, NEW x \in S \cup {Nil}, NEW y
  PROVE  /\ y \in S => Or(x, y) \in S
         /\ y \in S \cup {Nil} => Or(x, y) \in S \cup {Nil}
  BY DEF Or

LEMMA OverType ==
  ASSUME NEW given \in Profile, NEW p \in Profile
  PROVE  Over(given, p) \in Profile
<1>1. /\ given.tob \in Times \cup {Nil} /\ given.loc \in Places \cup {Nil}
      /\ given.tz \in Zones \cup {Nil}
      /\ p.tob \in Times \cup {Nil} /\ p.loc \in Places \cup {Nil} /\ p.tz \in Zones \cup {Nil}
  BY DEF Profile
<1>2. /\ Or(given.tob, p.tob) \in Times \cup {Nil} /\ Or(given.loc, p.loc) \in Places \cup {Nil}
      /\ Or(given.tz, p.tz) \in Zones \cup {Nil}
  BY <1>1, OrType
<1> QED
  BY <1>2 DEF Over, Profile

Rows == [dob : Dates, tob : Times \cup {Nil}, loc : Places \cup {Nil}, tz : Zones]

LEMMA RowsAreInputs == Rows \subseteq Inputs /\ NoChart \in Inputs
  BY DEF Rows, Inputs, NoChart

\* What is known of a request that has a step to take.
LEMMA Busy ==
  ASSUME TypeOK, NEW w \in Workers, NEW pc \in Pcs, At(w, pc)
  PROVE  req[w] \in Request /\ req[w] # Idle
<1>1. "idle" \notin Pcs
  BY DEF Pcs
<1> QED
  BY <1>1 DEF TypeOK, At, Idle

LEMMA RequestIs ==
  ASSUME NEW r \in Request
  PROVE  /\ r.pc \in Pcs /\ r.given \in Profile /\ r.whole \in BOOLEAN /\ r.has \in BOOLEAN
         /\ r.dob \in Dates /\ r.now \in Dates /\ r.p \in Profile /\ r.seen \in Inputs
  BY DEF Request

LEMMA TypeInit == Init => TypeOK
<1> SUFFICES ASSUME Init PROVE TypeOK
  OBVIOUS
<1>1. dob \in Dates /\ profile \in Profile
  BY DEF Init
<1>2. profile.tz # Nil => profile.tz \in Zones
  BY <1>1 DEF Profile
<1>3. row \in Rows
  BY <1>1, <1>2, HoroscopeAssumption DEF Init, Rows, Profile
<1>4. chart \in Inputs /\ derived \in Inputs /\ exe \in Inputs /\ calculated \in BOOLEAN
  BY <1>3, RowsAreInputs DEF Init
<1>5. req \in [Workers -> Request \cup {Idle}]
  BY DEF Init
<1>6. changes \in 0..MaxChanges /\ lost \in BOOLEAN /\ overtaken \in BOOLEAN
  <2>1. changes = 0 /\ lost = FALSE /\ overtaken = FALSE
    BY DEF Init
  <2>2. MaxChanges \in Nat
    BY HoroscopeAssumption
  <2>3. 0 \in 0..MaxChanges
    BY <2>2
  <2> QED
    BY <2>1, <2>3
<1> QED
  BY <1>1, <1>3, <1>4, <1>5, <1>6 DEF TypeOK, Rows

\* What Start, and the start of a command, leave in the request.
LEMMA StartType ==
  ASSUME TypeOK, NEW w \in Workers, NEW r \in Request, Start(w, r)
  PROVE  req' \in [Workers -> Request \cup {Idle}] /\ changes' \in 0..MaxChanges
<1>1. changes' \in 0..MaxChanges
  BY HoroscopeAssumption DEF TypeOK, Start
<1> QED
  BY <1>1 DEF TypeOK, Start

LEMMA CommandType ==
  ASSUME TypeOK, NEW w \in Workers, NEW pc \in {"push", "mark"}, Command(w, pc)
  PROVE  req' \in [Workers -> Request \cup {Idle}] /\ changes' \in 0..MaxChanges
<1> DEFINE r == [pc |-> pc, given |-> profile, whole |-> FALSE, has |-> FALSE, dob |-> dob,
                 now |-> dob, p |-> profile, seen |-> IF pc = "mark" THEN chart ELSE NoChart]
<1>1. r \in Request
  BY RowsAreInputs DEF TypeOK, Request, Pcs
<1>2. Start(w, r)
  BY DEF Command
<1> HIDE DEF r
<1> QED
  BY <1>1, <1>2, StartType

LEMMA DoneType ==
  ASSUME TypeOK, NEW w \in Workers, Done(w)
  PROVE  req' \in [Workers -> Request \cup {Idle}]
  BY DEF TypeOK, Done

LEMMA MovedType ==
  ASSUME NEW r \in Request, NEW pc \in Pcs, NEW p \in Profile, NEW d \in Dates, NEW seen \in Inputs
  PROVE  /\ [r EXCEPT !.pc = pc] \in Request
         /\ [r EXCEPT !.pc = pc, !.p = p] \in Request
         /\ [r EXCEPT !.pc = pc, !.seen = seen] \in Request
         /\ [r EXCEPT !.pc = pc, !.now = d, !.seen = seen] \in Request
  BY DEF Request

----------------------------------------------------------------------------
LEMMA TypeStep == TypeOK /\ [Next]_vars => TypeOK'
<1> SUFFICES ASSUME TypeOK, [Next]_vars PROVE TypeOK'
  OBVIOUS
<1> USE DEF bridge, history
<1>r. row \in Rows /\ row \in Inputs
  BY RowsAreInputs DEF TypeOK, Rows
<1>c. changes < MaxChanges => changes + 1 \in 0..MaxChanges
  BY HoroscopeAssumption DEF TypeOK
<1>1. ASSUME NEW w \in Workers, NEW given \in Profile, NEW has \in BOOLEAN, NEW whole \in BOOLEAN,
             Open(w, given, has, whole)
      PROVE  TypeOK'
  <2> DEFINE r == [pc |-> "profile", given |-> given, whole |-> whole, has |-> has, dob |-> dob,
                   now |-> dob, p |-> profile, seen |-> NoChart]
  <2>1. r \in Request
    BY RowsAreInputs DEF TypeOK, Request, Pcs
  <2>2. Start(w, r)
    BY <1>1 DEF Open
  <2> HIDE DEF r
  <2>3. req' \in [Workers -> Request \cup {Idle}] /\ changes' \in 0..MaxChanges
    BY <2>1, <2>2, StartType
  <2> QED
    BY <1>1, <2>3 DEF TypeOK, Open
<1>2. ASSUME NEW w \in Workers, PushRead(w) PROVE TypeOK'
  <2>1. req' \in [Workers -> Request \cup {Idle}] /\ changes' \in 0..MaxChanges
    BY <1>2, CommandType DEF PushRead
  <2> QED
    BY <1>2, <2>1 DEF TypeOK, PushRead
<1>3. ASSUME NEW w \in Workers, MarkRead(w) PROVE TypeOK'
  <2>1. req' \in [Workers -> Request \cup {Idle}] /\ changes' \in 0..MaxChanges
    BY <1>3, CommandType DEF MarkRead
  <2> QED
    BY <1>3, <2>1 DEF TypeOK, MarkRead
<1>4. ASSUME NEW w \in Workers, SaveProfile(w) PROVE TypeOK'
  <2>1. req[w] \in Request
    BY <1>4, Busy DEF SaveProfile, Pcs
  <2>2. Over(req[w].given, profile) \in Profile /\ Over(req[w].given, req[w].p) \in Profile
    BY <2>1, RequestIs, OverType DEF TypeOK
  <2>3. [req[w] EXCEPT !.pc = "sync", !.p = Over(req[w].given, req[w].p)] \in Request
    BY <2>1, <2>2, RequestIs, MovedType DEF Pcs
  <2>4. req' \in [Workers -> Request \cup {Idle}]
    BY <1>4, <2>3 DEF TypeOK, SaveProfile
  <2>5. profile' \in Profile
    BY <1>4, <2>1, <2>2, RequestIs DEF SaveProfile
  <2> QED
    BY <1>4, <2>4, <2>5 DEF TypeOK, SaveProfile
<1>5. ASSUME NEW w \in Workers, SyncRead(w) PROVE TypeOK'
  <2>1. req[w] \in Request
    BY <1>5, Busy DEF SyncRead, Pcs
  <2>2. [req[w] EXCEPT !.pc = "sync_write", !.now = dob, !.seen = row] \in Request
    BY <2>1, <1>r, RequestIs, MovedType DEF Pcs, TypeOK
  <2>3. req' \in [Workers -> Request \cup {Idle}]
    BY <1>5, <2>2 DEF TypeOK, SyncRead
  <2> QED
    BY <1>5, <2>3 DEF TypeOK, SyncRead
<1>6. ASSUME NEW w \in Workers, SyncWrite(w) PROVE TypeOK'
  <2> DEFINE r == req[w]
             new(old) == [dob |-> r.now, tob |-> r.p.tob, loc |-> r.p.loc, tz |-> Or(r.p.tz, old.tz)]
             changed == Changed(r.seen, new(r.seen))
  <2>1. r \in Request
    BY <1>6, Busy DEF SyncWrite, Pcs
  <2>2. r.p.tz \in Zones \cup {Nil} /\ row.tz \in Zones
    BY <2>1, RequestIs DEF Profile, TypeOK
  <2>3. new(row) \in Rows
    BY <2>1, <2>2, RequestIs, OrType DEF Profile, Rows
  <2>4. req' \in [Workers -> Request \cup {Idle}]
    <3>0. IF r.has THEN req' = [req EXCEPT ![w].pc = "bridge"] ELSE Done(w)
      BY <1>6 DEF SyncWrite
    <3>1. CASE r.has
      <4>1. [r EXCEPT !.pc = "bridge"] \in Request
        BY <2>1, RequestIs, MovedType DEF Pcs
      <4> QED
        BY <3>0, <3>1, <4>1 DEF TypeOK
    <3>2. CASE ~r.has
      BY <3>0, <3>2, DoneType
    <3> QED
      BY <3>1, <3>2
  <2>5. SaveInputs(r.seen, new(row), changed) \/ UNCHANGED <<bridge, history>>
    BY <1>6 DEF SyncWrite
  <2>6. UNCHANGED <<dob, profile, exe, changes>>
    BY <1>6 DEF SyncWrite
  <2> DEFINE n == new(row)
  <2>7. n \in Rows /\ (SaveInputs(r.seen, n, changed) \/ UNCHANGED <<bridge, history>>)
    BY <2>3, <2>5
  <2>8. changed \in BOOLEAN
    BY DEF Changed
  <2> HIDE DEF n, changed
  <2>9. row' \in Rows
    BY <1>r, <2>7 DEF SaveInputs
  <2>10. {chart', derived'} \subseteq Inputs
    BY <2>7, RowsAreInputs DEF SaveInputs, TypeOK
  <2>11. calculated' \in BOOLEAN /\ lost' \in BOOLEAN /\ overtaken' \in BOOLEAN
    BY <2>7, <2>8 DEF SaveInputs, TypeOK
  <2> QED
    BY <2>4, <2>6, <2>9, <2>10, <2>11 DEF TypeOK, Rows
<1>7. ASSUME NEW w \in Workers, SyncFails(w) PROVE TypeOK'
  <2>1. req[w] \in Request
    BY <1>7, Busy DEF SyncFails, At, Pcs
  <2>2. req' \in [Workers -> Request \cup {Idle}]
    <3>1. CASE req[w].has
      <4>1. [req[w] EXCEPT !.pc = "bridge"] \in Request
        BY <2>1, RequestIs, MovedType DEF Pcs
      <4>2. req' = [req EXCEPT ![w] = [req[w] EXCEPT !.pc = "bridge"]]
        BY <1>7, <3>1 DEF SyncFails
      <4> QED
        BY <4>1, <4>2 DEF TypeOK
    <3>2. CASE ~req[w].has
      BY <1>7, <3>2, DoneType DEF SyncFails
    <3> QED
      BY <3>1, <3>2
  <2> QED
    BY <1>7, <2>2, <1>c DEF TypeOK, SyncFails
<1>8. ASSUME NEW w \in Workers, BridgeRead(w) PROVE TypeOK'
  <2>1. req[w] \in Request
    BY <1>8, Busy DEF BridgeRead, Pcs
  <2>2. [req[w] EXCEPT !.pc = "bridge_write", !.seen = row] \in Request
    BY <2>1, <1>r, RequestIs, MovedType DEF Pcs
  <2>3. req' \in [Workers -> Request \cup {Idle}]
    BY <1>8, <2>2 DEF TypeOK, BridgeRead
  <2> QED
    BY <1>8, <2>3 DEF TypeOK, BridgeRead
<1>9. ASSUME NEW w \in Workers, BridgeWrite(w) PROVE TypeOK'
  <2> DEFINE r == req[w]
             new == [dob |-> r.dob, tob |-> r.given.tob, loc |-> r.given.loc,
                     tz |-> Or(r.given.tz, Home)]
             changed == Changed(r.seen, new)
  <2>1. r \in Request
    BY <1>9, Busy DEF BridgeWrite, Pcs
  <2>2. r.given.tz \in Zones \cup {Nil} /\ Home \in Zones
    BY <2>1, RequestIs, HoroscopeAssumption DEF Profile
  <2>3. new \in Rows
    BY <2>1, <2>2, RequestIs, OrType DEF Profile, Rows
  <2>4. changed \in BOOLEAN
    BY DEF Changed
  <2>5. /\ row' = new /\ calculated' = FALSE /\ overtaken' = FALSE
        /\ IF changed THEN chart' = NoChart /\ derived' = NoChart ELSE UNCHANGED <<chart, derived>>
        /\ lost' = (~changed /\ (lost \/ r.seen # row))
        /\ Done(w) /\ UNCHANGED <<dob, profile, exe, changes>>
    BY <1>9 DEF BridgeWrite
  <2>6. req' \in [Workers -> Request \cup {Idle}]
    BY <2>5, DoneType
  <2> HIDE DEF new, changed
  <2>7. lost' \in BOOLEAN
    BY <2>4, <2>5 DEF TypeOK
  <2>8. {chart', derived'} \subseteq Inputs
    BY <2>5, RowsAreInputs DEF TypeOK
  <2> QED
    BY <2>3, <2>5, <2>6, <2>7, <2>8 DEF TypeOK, Rows
<1>10. ASSUME NEW w \in Workers, PushWrite(w) PROVE TypeOK'
  <2>1. req[w] \in Request
    BY <1>10, Busy DEF PushWrite, Pcs
  <2>2. row' \in Rows
    BY <1>10, <2>1, RequestIs, HoroscopeAssumption DEF Profile, Rows, PushWrite
  <2>3. req' \in [Workers -> Request \cup {Idle}]
    BY <1>10, DoneType DEF PushWrite
  <2>4. lost' \in BOOLEAN
    BY <1>10 DEF PushWrite, TypeOK
  <2> QED
    BY <1>10, <2>2, <2>3, <2>4 DEF TypeOK, PushWrite, Rows
<1>11. ASSUME NEW w \in Workers, MarkWrite(w) PROVE TypeOK'
  <2>1. req[w] \in Request
    BY <1>11, Busy DEF MarkWrite, Pcs
  <2>2. req' \in [Workers -> Request \cup {Idle}]
    BY <1>11, DoneType DEF MarkWrite
  <2> QED
    BY <1>11, <2>1, <2>2, RequestIs DEF TypeOK, MarkWrite
<1>12. ASSUME NEW w \in Workers, BreakOff(w) PROVE TypeOK'
  BY <1>12, <1>c, DoneType DEF TypeOK, BreakOff
<1>13. ASSUME NEW d \in Dates, SetDob(d) PROVE TypeOK'
  BY <1>13, <1>c DEF TypeOK, SetDob
<1>14. CASE ExeTake
  BY <1>14, <1>r DEF TypeOK, ExeTake
<1>15. CASE ExeWrite
  <2>1. NoChart \in Inputs
    BY RowsAreInputs
  <2> QED
    BY <1>15, <2>1 DEF TypeOK, ExeWrite
<1>16. CASE ExeStops
  BY <1>16, <1>c, RowsAreInputs DEF TypeOK, ExeStops
<1>17. CASE UNCHANGED vars
  BY <1>17 DEF TypeOK, vars
<1> QED
  BY <1>1, <1>2, <1>3, <1>4, <1>5, <1>6, <1>7, <1>8, <1>9, <1>10, <1>11, <1>12, <1>13, <1>14,
     <1>15, <1>16, <1>17 DEF Next, Step

\* Every state's variables have the types of TypeOK: the columns of the birth details and
\* of the bridge row, and what each request holds of them.
THEOREM TypeCorrect == Spec => []TypeOK
<1>1. TypeOK /\ [Next]_vars => TypeOK'
  BY TypeStep
<1> QED
  BY <1>1, TypeInit, PTL DEF Spec

----------------------------------------------------------------------------
(* The charts.                                                               *)

LEMMA ChartInit == Init => ChartsComplete /\ ChartMatchesInputs /\ CalculatedMeansDone
<1> SUFFICES ASSUME Init PROVE ChartsComplete /\ ChartMatchesInputs /\ CalculatedMeansDone
  OBVIOUS
<1>1. exe = NoChart /\ derived = chart /\ calculated = (chart # NoChart)
  BY DEF Init
<1>2. chart # NoChart => chart = row /\ Ready(row)
  BY DEF Init
<1>3. \A w \in Workers : ~At(w, "mark")
  BY DEF Init, At, Idle
<1> QED
  BY <1>1, <1>2, <1>3 DEF ChartsComplete, ChartMatchesInputs, CalculatedMeansDone

\* A request that can mark the row has just begun, or could do so before.
MarkersKept ==
  \A v \in Workers : At(v, "mark")' =>
    req'[v] = req[v] \/ (req'[v].seen = chart /\ chart # NoChart)

LEMMA MovesToNoMark ==
  ASSUME TypeOK, NEW w \in Workers,
         NEW r, req' = [req EXCEPT ![w] = r],
         r.pc = "mark" => r.seen = chart /\ chart # NoChart
  PROVE  MarkersKept
  BY DEF TypeOK, MarkersKept, At

LEMMA MarkersStep == TypeOK /\ [Next]_vars => MarkersKept
<1> SUFFICES ASSUME TypeOK, [Next]_vars PROVE MarkersKept
  OBVIOUS
<1>i. Idle.pc # "mark"
  BY DEF Idle
<1>1. ASSUME NEW w \in Workers, NEW given \in Profile, NEW has \in BOOLEAN, NEW whole \in BOOLEAN,
             Open(w, given, has, whole)
      PROVE  MarkersKept
  <2> DEFINE r == [pc |-> "profile", given |-> given, whole |-> whole, has |-> has, dob |-> dob,
                   now |-> dob, p |-> profile, seen |-> NoChart]
  <2>1. req' = [req EXCEPT ![w] = r]
    BY <1>1 DEF Open, Start
  <2>2. r.pc # "mark"
    OBVIOUS
  <2> HIDE DEF r
  <2> QED
    BY <2>1, <2>2, MovesToNoMark
<1>2. ASSUME NEW w \in Workers, PushRead(w) PROVE MarkersKept
  <2> DEFINE r == [pc |-> "push", given |-> profile, whole |-> FALSE, has |-> FALSE, dob |-> dob,
                   now |-> dob, p |-> profile, seen |-> NoChart]
  <2>1. req' = [req EXCEPT ![w] = r]
    BY <1>2 DEF PushRead, Command, Start
  <2>2. r.pc # "mark"
    OBVIOUS
  <2> HIDE DEF r
  <2> QED
    BY <2>1, <2>2, MovesToNoMark
<1>3. ASSUME NEW w \in Workers, MarkRead(w) PROVE MarkersKept
  <2> DEFINE r == [pc |-> "mark", given |-> profile, whole |-> FALSE, has |-> FALSE, dob |-> dob,
                   now |-> dob, p |-> profile, seen |-> chart]
  <2>1. req' = [req EXCEPT ![w] = r]
    BY <1>3 DEF MarkRead, Command, Start
  <2>2. r.seen = chart /\ chart # NoChart
    BY <1>3 DEF MarkRead
  <2> HIDE DEF r
  <2> QED
    BY <2>1, <2>2, MovesToNoMark
<1>4. ASSUME NEW w \in Workers,
             SaveProfile(w) \/ SyncRead(w) \/ SyncWrite(w) \/ BridgeRead(w) \/ SyncFails(w)
      PROVE  MarkersKept
  <2>1. req[w] \in Request
    <3>1. \E pc \in Pcs : At(w, pc)
      BY <1>4 DEF SaveProfile, SyncRead, SyncWrite, BridgeRead, SyncFails, At, Pcs
    <3> QED
      BY <3>1, Busy
  <2>2. \/ Done(w)
        \/ \E r : req' = [req EXCEPT ![w] = r] /\ r.pc \in {"sync", "sync_write", "bridge", "bridge_write"}
    <3>1. CASE SaveProfile(w)
      <4>1. [req[w] EXCEPT !.pc = "sync", !.p = Over(req[w].given, req[w].p)].pc = "sync"
        BY <2>1 DEF Request
      <4> QED
        BY <3>1, <4>1 DEF SaveProfile
    <3>2. CASE SyncRead(w)
      <4>1. [req[w] EXCEPT !.pc = "sync_write", !.now = dob, !.seen = row].pc = "sync_write"
        BY <2>1 DEF Request
      <4> QED
        BY <3>2, <4>1 DEF SyncRead
    <3>3. CASE BridgeRead(w)
      <4>1. [req[w] EXCEPT !.pc = "bridge_write", !.seen = row].pc = "bridge_write"
        BY <2>1 DEF Request
      <4> QED
        BY <3>3, <4>1 DEF BridgeRead
    <3>4. CASE SyncWrite(w) \/ SyncFails(w)
      <4>1. [req[w] EXCEPT !.pc = "bridge"].pc = "bridge"
        BY <2>1 DEF Request
      <4>2. req' = [req EXCEPT ![w] = [req[w] EXCEPT !.pc = "bridge"]] \/ Done(w)
        BY <3>4 DEF SyncWrite, SyncFails
      <4> QED
        BY <4>1, <4>2
    <3> QED
      BY <1>4, <3>1, <3>2, <3>3, <3>4
  <2> QED
    BY <2>2, <1>i, MovesToNoMark DEF Done
<1>5. ASSUME NEW w \in Workers, BridgeWrite(w) \/ PushWrite(w) \/ MarkWrite(w) \/ BreakOff(w)
      PROVE  MarkersKept
  <2>1. Done(w)
    BY <1>5 DEF BridgeWrite, PushWrite, MarkWrite, BreakOff
  <2> QED
    BY <2>1, <1>i, MovesToNoMark DEF Done
<1>6. CASE (\E d \in Dates : SetDob(d)) \/ ExeTake \/ ExeWrite \/ ExeStops \/ UNCHANGED vars
  <2>1. req' = req
    BY <1>6 DEF SetDob, ExeTake, ExeWrite, ExeStops, vars
  <2> QED
    BY <2>1 DEF MarkersKept, At
<1> QED
  BY <1>1, <1>2, <1>3, <1>4, <1>5, <1>6 DEF Next, Step

\* The charts that may appear where the program or a command leaves them.
LEMMA ChartsStep == TypeOK /\ ChartsComplete /\ [Next]_vars => ChartsComplete'
<1> SUFFICES ASSUME TypeOK, ChartsComplete, [Next]_vars PROVE ChartsComplete'
  OBVIOUS
<1> USE DEF bridge, history
<1>1. chart' \in {chart, NoChart} \/ (chart' = exe /\ exe # NoChart)
  BY DEF Next, Step, vars, Open, SaveProfile, SyncRead, SyncWrite, SaveInputs, SyncFails, BridgeRead,
         BridgeWrite, PushRead, PushWrite, MarkRead, MarkWrite, ExeTake, ExeWrite, ExeStops,
         BreakOff, SetDob
<1>2. derived' \in {derived, NoChart} \/ \E w \in Workers : At(w, "mark") /\ derived' = req[w].seen
  BY DEF Next, Step, vars, Open, SaveProfile, SyncRead, SyncWrite, SaveInputs, SyncFails, BridgeRead,
         BridgeWrite, PushRead, PushWrite, MarkRead, MarkWrite, ExeTake, ExeWrite, ExeStops,
         BreakOff, SetDob
<1>3. exe' \in {exe, NoChart} \/ (exe' = row /\ Ready(row))
  BY DEF Next, Step, vars, Open, SaveProfile, SyncRead, SyncWrite, SaveInputs, SyncFails, BridgeRead,
         BridgeWrite, PushRead, PushWrite, MarkRead, MarkWrite, ExeTake, ExeWrite, ExeStops,
         BreakOff, SetDob
<1>4. \A c \in {exe', chart', derived'} : c # NoChart => Ready(c)
  BY <1>1, <1>2, <1>3 DEF ChartsComplete
<1>5. \A w \in Workers : At(w, "mark")' => req'[w].seen # NoChart /\ Ready(req'[w].seen)
  BY MarkersStep DEF MarkersKept, ChartsComplete, At
<1> QED
  BY <1>4, <1>5 DEF ChartsComplete, At

\* A chart survives a writer of the row only where the writer leaves the inputs as they are,
\* or leaves its trace in lost.
LEMMA MatchStep == ChartMatchesInputs /\ [Next]_vars => ChartMatchesInputs'
<1> SUFFICES ASSUME ChartMatchesInputs, [Next]_vars PROVE ChartMatchesInputs'
  OBVIOUS
<1> USE DEF bridge, history
<1>1. ASSUME NEW w \in Workers, SyncWrite(w) PROVE ChartMatchesInputs'
  <2> DEFINE r == req[w]
             new(old) == [dob |-> r.now, tob |-> r.p.tob, loc |-> r.p.loc, tz |-> Or(r.p.tz, old.tz)]
             changed == Changed(r.seen, new(r.seen))
  <2>1. SaveInputs(r.seen, new(row), changed) \/ UNCHANGED <<chart, row, lost>>
    BY <1>1 DEF SyncWrite
  <2>2. ~changed /\ r.seen = row => new(row) = row
    BY DEF Changed
  <2>3. CASE UNCHANGED <<chart, row, lost>>
    BY <2>3 DEF ChartMatchesInputs
  <2> DEFINE n == new(row)
  <2>4. SaveInputs(r.seen, n, changed) \/ UNCHANGED <<chart, row, lost>>
    BY <2>1
  <2>5. ~changed /\ r.seen = row => n = row
    BY <2>2
  <2> HIDE DEF n, changed
  <2>6. CASE SaveInputs(r.seen, n, changed) /\ changed
    BY <2>6 DEF SaveInputs, ChartMatchesInputs
  <2>7. CASE SaveInputs(r.seen, n, changed) /\ ~changed
    <3>1. row' = n /\ chart' = chart /\ (lost \/ r.seen # row => lost')
      BY <2>7 DEF SaveInputs
    <3> QED
      BY <2>5, <2>7, <3>1 DEF ChartMatchesInputs
  <2> QED
    BY <2>3, <2>4, <2>6, <2>7
<1>2. ASSUME NEW w \in Workers, BridgeWrite(w) PROVE ChartMatchesInputs'
  BY <1>2 DEF BridgeWrite, Changed, ChartMatchesInputs
<1>3. ASSUME NEW w \in Workers, PushWrite(w) PROVE ChartMatchesInputs'
  BY <1>3 DEF PushWrite, ChartMatchesInputs
<1>4. CASE ExeWrite
  BY <1>4 DEF ExeWrite, ChartMatchesInputs
<1>5. CASE UNCHANGED <<chart, row, lost>>
  BY <1>5 DEF ChartMatchesInputs
<1> QED
  BY <1>1, <1>2, <1>3, <1>4, <1>5 DEF Next, Step, vars, Open, SaveProfile, SyncRead, SyncFails,
     BridgeRead, PushRead, MarkRead, MarkWrite, ExeTake, ExeStops, BreakOff, SetDob

LEMMA MeansStep ==
  ChartsComplete /\ CalculatedMeansDone /\ [Next]_vars => CalculatedMeansDone'
<1> SUFFICES ASSUME ChartsComplete, CalculatedMeansDone, [Next]_vars PROVE CalculatedMeansDone'
  OBVIOUS
<1> USE DEF bridge, history
<1>1. ASSUME NEW w \in Workers, SyncWrite(w) PROVE CalculatedMeansDone'
  <2>1. PICK seen, new, changed :
          SaveInputs(seen, new, changed) \/ UNCHANGED <<chart, derived, calculated, overtaken>>
    BY <1>1 DEF SyncWrite
  <2>2. CASE UNCHANGED <<chart, derived, calculated, overtaken>>
    BY <2>2 DEF CalculatedMeansDone
  <2>3. CASE SaveInputs(seen, new, changed) /\ changed
    BY <2>3 DEF SaveInputs, CalculatedMeansDone
  <2>4. CASE SaveInputs(seen, new, changed) /\ ~changed
    <3>1. chart' = chart /\ derived' = derived /\ (calculated' => calculated) /\ (overtaken => overtaken')
      BY <2>4 DEF SaveInputs
    <3> QED
      BY <3>1 DEF CalculatedMeansDone
  <2> QED
    BY <2>1, <2>2, <2>3, <2>4
<1>2. ASSUME NEW w \in Workers, BridgeWrite(w) PROVE CalculatedMeansDone'
  BY <1>2 DEF BridgeWrite, CalculatedMeansDone
<1>3. ASSUME NEW w \in Workers, MarkWrite(w) PROVE CalculatedMeansDone'
  BY <1>3 DEF MarkWrite, CalculatedMeansDone, ChartsComplete
<1>4. CASE ExeWrite
  BY <1>4 DEF ExeWrite, CalculatedMeansDone
<1>5. CASE UNCHANGED <<chart, derived, calculated, overtaken>>
  BY <1>5 DEF CalculatedMeansDone
<1> QED
  BY <1>1, <1>2, <1>3, <1>4, <1>5 DEF Next, Step, vars, Open, SaveProfile, SyncRead, SyncFails,
     BridgeRead, PushRead, PushWrite, MarkRead, ExeTake, ExeStops, BreakOff, SetDob

LEMMA ChartAlways == Spec => []ChartInv
<1>1. ChartInv /\ [Next]_vars => ChartInv'
  BY TypeStep, ChartsStep, MatchStep, MeansStep DEF ChartInv
<1>2. Init => ChartInv
  BY TypeInit, ChartInit DEF ChartInv
<1> QED
  BY <1>1, <1>2, PTL DEF Spec

\* A chart on show was computed from the inputs in its row, or a race of two writers, a
\* push, or a change under the program is on record (SyncWrite, BridgeWrite, PushWrite,
\* ExeWrite).
THEOREM ChartIsOfItsRow == Spec => []ChartMatchesInputs
<1>1. ChartInv => ChartMatchesInputs
  BY DEF ChartInv
<1> QED
  BY <1>1, ChartAlways, PTL

\* A row marked calculated has a chart and the labels of that chart, unless the chart
\* changed while the labels were derived (fill_derived).
THEOREM MarkedIsDone == Spec => []CalculatedMeansDone
<1>1. ChartInv => CalculatedMeansDone
  BY DEF ChartInv
<1> QED
  BY <1>1, ChartAlways, PTL

\* No chart, and no set of labels, comes from birth details without a time or a place
\* (is_exe_ready), whatever is cleared or pushed while the program works.
THEOREM OnlyCompleteCharts == Spec => []ChartsComplete
<1>1. ChartInv => ChartsComplete
  BY DEF ChartInv
<1> QED
  BY <1>1, ChartAlways, PTL

=============================================================================
