----------------------------- MODULE Horoscope -----------------------------
(***************************************************************************)
(* How one member's birth details become a chart (astrology/, profiles/).  *)
(*                                                                         *)
(* The details live in the member's User row (date) and UserProfile row    *)
(* (time, coordinates, time zone). They are copied to a bridge row,        *)
(* HoroscopeProfile, by a signal on every save of the profile and by the   *)
(* birth details service itself. A Windows program, outside the            *)
(* repository, reads the inputs of bridge rows that are not calculated     *)
(* and writes the chart into them. A command derives labels from the chart *)
(* and marks the row calculated.                                           *)
(*                                                                         *)
(* The member's requests run without a transaction: a step is one query,   *)
(* or one update_or_create. A request may stop for good between any two.   *)
(***************************************************************************)
EXTENDS Integers, FiniteSets

CONSTANTS
  Workers,
  Dates, Times, Places, Zones,   \* birth details a member may enter
  Home,        \* DEFAULT_TIMEZONE
  MaxChanges   \* bound of the model: requests, commands, and stops of the program

ASSUME HoroscopeAssumption == Home \in Zones /\ MaxChanges \in Nat

Nil == "nil"
Inputs == [dob : Dates \cup {Nil}, tob : Times \cup {Nil}, loc : Places \cup {Nil},
           tz : Zones \cup {Nil}]
NoChart == [dob |-> Nil, tob |-> Nil, loc |-> Nil, tz |-> Nil]

VARIABLES
  dob,         \* User.dob
  profile,     \* UserProfile: time_of_birth, birth_latitude/longitude, birth_timezone
  row,         \* HoroscopeProfile: the inputs pr_dob, pr_tob, pr_lat/pr_lon, pr_tz
  chart,       \* the inputs that the chart in the row was computed from, or NoChart
  derived,     \* the chart that the labels in the row were derived from, or NoChart
  calculated,  \* is_calculated
  exe,         \* the inputs the program is working on, or NoChart
  req,         \* req[w]: the request or command worker w is serving
  changes,     \* requests, commands and stops so far
  lost,        \* history: the chart was kept by a writer that had read another row, or by
               \* push_to_exe_bridge, or was computed from a row that has changed
  overtaken    \* history: the chart changed between the reading and the marking of the row

bridge == <<row, chart, derived, calculated>>
history == <<lost, overtaken>>
vars == <<dob, profile, bridge, exe, req, changes, history>>

Profile == [tob : Times \cup {Nil}, loc : Places \cup {Nil}, tz : Zones \cup {Nil}]
Pcs == {"profile", "sync", "sync_write", "bridge", "bridge_write", "push", "mark"}
Request ==
  [pc : Pcs,
   given : Profile,       \* the details in the request
   whole : BOOLEAN,       \* every column of the profile is saved, not only those given
   has : BOOLEAN,         \* has_horoscope
   dob : Dates,           \* the date as the request's user object has it
   now : Dates,           \* the date as the signal read it
   p : Profile,           \* the profile as the request's object has it
   seen : Inputs]         \* the bridge row, or the chart in it, as last read
Idle == [pc |-> "idle"]

TypeOK ==
  /\ dob \in Dates /\ profile \in Profile
  /\ row \in [dob : Dates, tob : Times \cup {Nil}, loc : Places \cup {Nil}, tz : Zones]
  /\ {chart, derived, exe} \subseteq Inputs /\ calculated \in BOOLEAN
  /\ req \in [Workers -> Request \cup {Idle}]
  /\ changes \in 0..MaxChanges /\ {lost, overtaken} \subseteq BOOLEAN

----------------------------------------------------------------------------
At(w, pc) == req[w].pc = pc
Done(w) == req' = [req EXCEPT ![w] = Idle]

\* HoroscopeProfile.is_exe_ready
Ready(r) == r.dob # Nil /\ r.tob # Nil /\ r.loc # Nil

\* The profile's part of it, and push_to_exe_bridge's filter.
Complete(p) == p.tob # Nil /\ p.loc # Nil

\* The member has registered (the bridge row is made by a signal), or has a finished chart.
Init ==
  /\ dob \in Dates /\ profile \in Profile
  /\ \/ profile = [tob |-> Nil, loc |-> Nil, tz |-> Nil]
     \/ Complete(profile)
  /\ row = [dob |-> dob, tob |-> profile.tob, loc |-> profile.loc,
            tz |-> IF profile.tz = Nil THEN Home ELSE profile.tz]
  /\ chart \in {IF Ready(row) THEN row ELSE NoChart, NoChart}
  /\ derived = chart /\ calculated = (chart # NoChart)
  /\ exe = NoChart /\ req = [w \in Workers |-> Idle] /\ changes = 0
  /\ lost = FALSE /\ overtaken = FALSE

Start(w, r) ==
  /\ req[w] = Idle /\ changes < MaxChanges
  /\ changes' = changes + 1 /\ req' = [req EXCEPT ![w] = r]

----------------------------------------------------------------------------
(* Birth details.                                                            *)

\* Mutant: the date of birth is not compared.
ChangedButDate(seen, new) == [seen EXCEPT !.dob = new.dob] # new

\* horoscope_chart_inputs_changed
Changed(seen, new) == seen # new

Or(x, default) == IF x = Nil THEN default ELSE x
Over(given, p) ==
  [tob |-> Or(given.tob, p.tob), loc |-> Or(given.loc, p.loc), tz |-> Or(given.tz, p.tz)]

\* Mutant: the labels and the mark are left.
ClearChart(seen, new, changed) ==
  /\ row' = new
  /\ chart' = IF changed THEN NoChart ELSE chart
  /\ lost' = (~changed /\ (lost \/ seen # row))
  /\ UNCHANGED <<derived, calculated, overtaken>>

\* The inputs are saved, with EXE_OUTPUT_RESET if they differ from those seen.
SaveInputs(seen, new, changed) ==
  /\ row' = new
  /\ chart' = IF changed THEN NoChart ELSE chart
  /\ derived' = IF changed THEN NoChart ELSE derived
  /\ calculated' = (calculated /\ ~changed)
  /\ lost' = (~changed /\ (lost \/ seen # row))
  /\ overtaken' = (overtaken /\ ~changed)

\* PATCH profile/basic/ saves the user; no signal copies the date.
SetDob(d) ==
  /\ changes < MaxChanges /\ changes' = changes + 1
  /\ dob' = d
  /\ UNCHANGED <<profile, bridge, exe, req, history>>

\* The profile is read: by the birth details endpoints (ProfileBirthDetailsView,
\* ProfileLocationView, BasicDetailsView), which validate that a time comes with
\* has_horoscope, and whose place may be one that cannot be located; by
\* UpdateBirthCoordinatesView; by the endpoints that save other columns.
Open(w, given, has, whole) ==
  /\ has => given.tob # Nil
  /\ whole => ~has /\ given = [tob |-> Nil, loc |-> Nil, tz |-> Nil]
  /\ Start(w, [pc |-> "profile", given |-> given, whole |-> whole, has |-> has, dob |-> dob,
               now |-> dob, p |-> profile, seen |-> NoChart])
  /\ UNCHANGED <<dob, profile, bridge, exe, history>>

SaveProfile(w) ==
  LET r == req[w] IN
  /\ At(w, "profile")
  /\ profile' = IF r.whole THEN r.p ELSE Over(r.given, profile)
  /\ req' = [req EXCEPT ![w].pc = "sync", ![w].p = Over(r.given, r.p)]
  /\ UNCHANGED <<dob, bridge, exe, changes, history>>

\* sync_birth_to_horoscope_profile: the user and the bridge row are read again, the
\* profile is not.
SyncRead(w) ==
  /\ At(w, "sync")
  /\ req' = [req EXCEPT ![w].pc = "sync_write", ![w].now = dob, ![w].seen = row]
  /\ UNCHANGED <<dob, profile, bridge, exe, changes, history>>

\* The columns are saved when an input or the name differs; a time zone the profile
\* does not have is left alone.
SyncWrite(w) ==
  LET r == req[w]
      new(old) == [dob |-> r.now, tob |-> r.p.tob, loc |-> r.p.loc, tz |-> Or(r.p.tz, old.tz)]
      changed == Changed(r.seen, new(r.seen))
  IN
  /\ At(w, "sync_write")
  /\ \/ SaveInputs(r.seen, new(row), changed)
     \/ r.seen = new(r.seen) /\ UNCHANGED <<bridge, history>>
  /\ IF r.has THEN req' = [req EXCEPT ![w].pc = "bridge"] ELSE Done(w)
  /\ UNCHANGED <<dob, profile, exe, changes>>

\* Whatever goes wrong in the signal is logged, and the request goes on.
SyncFails(w) ==
  /\ req[w].pc \in {"sync", "sync_write"} /\ changes < MaxChanges
  /\ changes' = changes + 1
  /\ IF req[w].has THEN req' = [req EXCEPT ![w].pc = "bridge"] ELSE Done(w)
  /\ UNCHANGED <<dob, profile, bridge, exe, history>>

\* create_horoscope_profile: the row is read, and updated with the details of the request.
BridgeRead(w) ==
  /\ At(w, "bridge")
  /\ req' = [req EXCEPT ![w].pc = "bridge_write", ![w].seen = row]
  /\ UNCHANGED <<dob, profile, bridge, exe, changes, history>>

BridgeWrite(w) ==
  LET r == req[w]
      new == [dob |-> r.dob, tob |-> r.given.tob, loc |-> r.given.loc, tz |-> Or(r.given.tz, Home)]
      changed == Changed(r.seen, new)
  IN
  /\ At(w, "bridge_write")
  /\ row' = new
  /\ calculated' = FALSE /\ overtaken' = FALSE
  /\ IF changed THEN chart' = NoChart /\ derived' = NoChart ELSE UNCHANGED <<chart, derived>>
  /\ lost' = (~changed /\ (lost \/ r.seen # row))
  /\ Done(w)
  /\ UNCHANGED <<dob, profile, exe, changes>>

----------------------------------------------------------------------------
(* Commands, and the program.                                                *)

Command(w, pc) ==
  Start(w, [pc |-> pc, given |-> profile, whole |-> FALSE, has |-> FALSE, dob |-> dob,
            now |-> dob, p |-> profile, seen |-> IF pc = "mark" THEN chart ELSE NoChart])

\* push_to_exe_bridge: complete profiles are read, and written with the default zone.
PushRead(w) ==
  /\ dob # Nil /\ Complete(profile) /\ Command(w, "push")
  /\ UNCHANGED <<dob, profile, bridge, exe, history>>

PushWrite(w) ==
  LET r == req[w] IN
  /\ At(w, "push")
  /\ row' = [dob |-> r.dob, tob |-> r.p.tob, loc |-> r.p.loc, tz |-> Home]
  /\ lost' = (chart # NoChart /\ (lost \/ row' # row))
  /\ Done(w)
  /\ UNCHANGED <<dob, profile, chart, derived, calculated, exe, changes, overtaken>>

\* mark_horoscope_done and run_mark_horoscope_done: rows with a chart and no mark.
MarkRead(w) ==
  /\ ~calculated /\ chart # NoChart /\ Command(w, "mark")
  /\ UNCHANGED <<dob, profile, bridge, exe, history>>

\* fill_derived
MarkWrite(w) ==
  /\ At(w, "mark")
  /\ derived' = req[w].seen /\ calculated' = TRUE
  /\ overtaken' = (req[w].seen # chart)
  /\ Done(w)
  /\ UNCHANGED <<dob, profile, row, chart, exe, changes, lost>>

\* The program takes a row that is ready and not calculated, and writes its chart later.
ExeTake ==
  /\ exe = NoChart /\ Ready(row) /\ ~calculated
  /\ exe' = row
  /\ UNCHANGED <<dob, profile, bridge, req, changes, history>>

ExeWrite ==
  /\ exe # NoChart
  /\ chart' = exe /\ exe' = NoChart
  /\ lost' = (exe # row)
  /\ overtaken' = (overtaken \/ (calculated /\ exe # derived))
  /\ UNCHANGED <<dob, profile, row, derived, calculated, req, changes>>

ExeStops ==
  /\ exe # NoChart /\ changes < MaxChanges
  /\ changes' = changes + 1 /\ exe' = NoChart
  /\ UNCHANGED <<dob, profile, bridge, req, history>>

\* The worker dies, or a query fails.
BreakOff(w) ==
  /\ req[w] # Idle /\ changes < MaxChanges
  /\ changes' = changes + 1 /\ Done(w)
  /\ UNCHANGED <<dob, profile, bridge, exe, history>>

Step(w) ==
  SaveProfile(w) \/ SyncRead(w) \/ SyncWrite(w) \/ BridgeRead(w) \/ BridgeWrite(w)
    \/ PushWrite(w) \/ MarkWrite(w)

Next ==
  \/ \E w \in Workers :
       \/ \E given \in Profile, has, whole \in BOOLEAN : Open(w, given, has, whole)
       \/ PushRead(w) \/ MarkRead(w) \/ SyncFails(w) \/ BreakOff(w) \/ Step(w)
  \/ \E d \in Dates : SetDob(d)
  \/ ExeTake \/ ExeWrite \/ ExeStops

Spec == Init /\ [][Next]_vars

\* A request that is being served goes on, and the program calculates what it finds
\* ("up to 24 hours", horoscope_api.py). Nobody need run a command or make a request.
Fairness == WF_vars(ExeTake) /\ WF_vars(ExeWrite) /\ \A w \in Workers : WF_vars(Step(w))
LiveSpec == Spec /\ Fairness

----------------------------------------------------------------------------
(* Properties.                                                               *)

\* A chart on show was computed from the inputs in its row, unless they changed while
\* the program was working, or between a writer's reading and its writing of the row, or
\* push_to_exe_bridge changed them (sync_birth_to_horoscope_profile, create_horoscope_profile).
ChartMatchesInputs == chart # NoChart => chart = row \/ lost

\* A row marked calculated has a chart, and labels of that chart, unless the chart
\* changed while the labels were derived (fill_derived).
CalculatedMeansDone == calculated => (chart # NoChart /\ derived = chart) \/ overtaken

\* Once the changes end, a row that is ready has a chart, unless it was marked calculated
\* over a chart that had been cleared (HoroscopeProfile.is_exe_ready, is_exe_done).
ReadyIsCharted == <>[](Ready(row) /\ ~overtaken => chart # NoChart)

\* "Cleared when birth inputs change so GET horoscope/me is not_generated": at rest, a
\* chart on show is not of another date, time or place than the member's.
ClearedWhenInputsChange ==
  chart # NoChart /\ exe = NoChart /\ ~lost /\ (\A w \in Workers : req[w] = Idle)
    => chart.dob = dob /\ chart.tob = profile.tob /\ chart.loc = profile.loc

=============================================================================
