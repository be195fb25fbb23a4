------------------------------ MODULE GridFeed ------------------------------
(***************************************************************************)
(* The Grid Feed-in switch of control.py: it stops the export with two     *)
(* register writes and later puts back "the inverter's own last export     *)
(* settings", which it has to recognise among the readings of polls that   *)
(* run beside its writes, while the app may change the same registers.     *)
(*                                                                         *)
(* Races chooses what may happen at awkward moments: "frames", a frame is  *)
(* read while the switch writes and taken up afterwards; "half", a turn    *)
(* that allows an export the app had stopped ends between its two writes;  *)
(* "stopped", the app sets an export while the switch holds it off.        *)
(* Without them the owner's settings are never lost; with any of them they *)
(* are.  Never modelled is an app change that the next use of the switch,  *)
(* or of the app, finds still unpolled: no switch could put back what it   *)
(* has had no chance to see.                                               *)
(***************************************************************************)
EXTENDS Naturals

CONSTANTS Caps,    \* feed-in power caps in watts; 0 exports nothing
          None,    \* nothing, not read yet
          Races

ASSUME FeedIsKnown ==
    /\ 0 \in Caps /\ Caps \subseteq Nat
    /\ Races \subseteq {"frames", "half", "stopped"}

VARIABLES
    device,   \* external: the feed mode and cap registers, 40537 and 40538
    frame,    \* the frame a poll has read and not yet taken up
    seen,     \* _inputs, the last frame taken up
    restore,  \* _grid_feed_restore
    stopped,  \* _grid_feed_stopped
    turn,     \* the turn of the switch that is under way (PARALLEL_UPDATES = 1)
    own,      \* history: the last settings with an export not made by the switch
    news      \* history: the app has acted since the last frame taken up

vars == <<device, frame, seen, restore, stopped, turn, own, news>>

Switchable == {"limited", "unlimited"}
Modes == Switchable \cup {"percent"}
Settings == [mode : Modes, cap : Caps]

ASSUME NoneIsNoSetting == None \notin Settings

(* _allows_export, for the modes the switch knows; and what is adopted.    *)
AllowsExport(s) == s.mode = "unlimited" \/ s.cap > 0
Adoptable(s) == s.mode \in Switchable /\ AllowsExport(s)

Idle == [at |-> "idle", allow |-> FALSE, goal |-> None]

Init ==
    /\ device \in Settings
    /\ frame = None /\ seen = None
    /\ restore = None /\ stopped = FALSE
    /\ turn = Idle
    /\ own = IF Adoptable(device) THEN device ELSE None
    /\ news = TRUE

-----------------------------------------------------------------------------

(* A slip: what is read while the switch holds the export off is adopted. *)
TrackStopped(s) ==
    restore' = IF ~Adoptable(s) THEN restore ELSE s

(* _track_grid_feed_restore.                                               *)
Track(s) == restore' = IF stopped \/ ~Adoptable(s) THEN restore ELSE s

(* A poll reads both registers in one block, and goes on reading others ...*)
ReadFrame ==
    /\ frame = None
    /\ "frames" \in Races \/ turn = Idle
    /\ frame' = device
    /\ UNCHANGED <<device, seen, restore, stopped, turn, own, news>>

(* ... until async_poll takes the frame up.                                *)
TakeFrame ==
    /\ frame # None
    /\ Track(frame)
    /\ seen' = frame /\ frame' = None
    /\ news' = (news /\ frame # device)
    /\ UNCHANGED <<device, stopped, turn, own>>

-----------------------------------------------------------------------------
(* async_set_grid_feed up to its wait for authority: the settings to put   *)
(* back are looked up now, and used whenever the writes come.  The switch  *)
(* exists from the first frame on.                                         *)
Turn(allow) ==
    /\ turn = Idle
    /\ "frames" \in Races \/ frame = None
    /\ ~news
    /\ \E s \in {seen} \ {None} : s.mode \in Switchable
    /\ restore # None
    /\ turn' = [at |-> "authority", allow |-> allow, goal |-> restore]
    /\ UNCHANGED <<device, frame, seen, restore, stopped, own, news>>

(* The first write follows at once; a stop is noted before it.             *)
Authorized ==
    /\ turn.at = "authority"
    /\ turn' = [turn EXCEPT !.at = "first"]
    /\ stopped' = (stopped \/ ~turn.allow)
    /\ UNCHANGED <<device, frame, seen, restore, own, news>>

Denied ==
    /\ turn.at = "authority"
    /\ turn' = Idle
    /\ UNCHANGED <<device, frame, seen, restore, stopped, own, news>>

(* What the write that is due makes of the registers: cap before mode when *)
(* the export is allowed, mode before cap when it is stopped.              *)
Due == IF turn.allow = (turn.at = "first")
       THEN [device EXCEPT !.cap = IF turn.allow THEN turn.goal.cap ELSE 0]
       ELSE [device EXCEPT !.mode = IF turn.allow THEN turn.goal.mode ELSE "limited"]

(* A slip: the export is allowed in the mode the switch left behind. *)
WriteOnlyCap ==
    /\ turn.at \in {"first", "second"}
    /\ device' = IF turn.allow /\ turn.at = "second" THEN device ELSE Due
    /\ IF turn.at = "first"
       THEN turn' = [turn EXCEPT !.at = "second"] /\ UNCHANGED stopped
       ELSE turn' = Idle /\ stopped' = ~turn.allow
    /\ UNCHANGED <<frame, seen, restore, own, news>>

(* A write is delivered and reads back.                                    *)
Write ==
    /\ turn.at \in {"first", "second"}
    /\ device' = Due
    /\ IF turn.at = "first"
       THEN turn' = [turn EXCEPT !.at = "second"] /\ UNCHANGED stopped
       ELSE turn' = Idle /\ stopped' = ~turn.allow
    /\ UNCHANGED <<frame, seen, restore, own, news>>

(* May the turn end here, with its writes half done?                       *)
MayEndHere == turn.at = "second" => stopped \/ "half" \in Races

(* Or it fails, before or after the inverter took it, and ends the turn.   *)
WriteFails ==
    /\ turn.at \in {"first", "second"} /\ MayEndHere
    /\ device' \in {device} \cup (IF stopped \/ "half" \in Races THEN {Due} ELSE {})
    /\ turn' = Idle
    /\ UNCHANGED <<frame, seen, restore, stopped, own, news>>

-----------------------------------------------------------------------------
(* External: the app, or an installer, changes the feed settings; never    *)
(* within the second or two a turn takes.                                  *)
AppSets(s) ==
    /\ turn = Idle /\ s # device
    /\ "frames" \in Races \/ frame = None
    /\ ~news
    /\ stopped => "stopped" \in Races
    /\ device' = s
    /\ own' = IF Adoptable(s) THEN s ELSE own
    /\ news' = TRUE
    /\ UNCHANGED <<frame, seen, restore, stopped, turn>>

(* Home Assistant shuts down in order and starts again: both are stored.   *)
Restart ==
    /\ MayEndHere
    /\ frame' = None /\ seen' = None /\ turn' = Idle
    /\ UNCHANGED <<device, restore, stopped, own, news>>

-----------------------------------------------------------------------------
Next ==
    \/ ReadFrame \/ TakeFrame
    \/ \E allow \in BOOLEAN : Turn(allow)
    \/ Authorized \/ Denied \/ Write \/ WriteFails
    \/ \E s \in Settings : AppSets(s)
    \/ Restart

Spec == Init /\ [][Next]_vars

(* Polls go on for ever.                                                   *)
FairSpec == Spec /\ WF_vars(ReadFrame) /\ WF_vars(TakeFrame)

-----------------------------------------------------------------------------
TypeOK ==
    /\ device \in Settings
    /\ {frame, seen} \subseteq Settings \cup {None}
    /\ restore \in {s \in Settings : Adoptable(s)} \cup {None}
    /\ {stopped, news} \subseteq BOOLEAN
    /\ turn \in [at : {"idle", "authority", "first", "second"}, allow : BOOLEAN,
                 goal : Settings \cup {None}]
    /\ own \in {s \in Settings : Adoptable(s)} \cup {None}

(* Nothing the inverter's owner has set is lost to the switch: the last    *)
(* settings with an export are on the inverter or kept to be put back,     *)
(* through half-done turns, readings of the switch's own writes, restarts. *)
OwnSettingsAreNotLost == own # None => restore = own \/ device = own

(* "Stop the export, or put back the inverter's own last export settings": *)
(* what a completed turn leaves.                                           *)
TurnsAreExact ==
    [][Write /\ turn.at = "second" =>
          IF turn.allow THEN device' = own ELSE ~AllowsExport(device')]_vars

(* "Raising the cap in the EcoFlow app is picked up on the next poll":     *)
(* what the app leaves in force is what there is to put back.              *)
NewSettingsAreAdopted ==
    <>[](turn = Idle /\ ~stopped /\ device = own) /\ <>[][~Restart /\ device' = device]_vars
        => <>[](restore = own)
=============================================================================
