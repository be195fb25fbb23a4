-------------------------- MODULE ControlLoopProofs --------------------------
(***************************************************************************)
(* Theorems about ControlLoop, for any commands, users, overrides and      *)
(* kinds of trouble: setpoints go out under authority only, no mode is     *)
(* left selected while Modbus Control is off, and in calm what looks       *)
(* settled is what the inverter follows.                                   *)
(***************************************************************************)
EXTENDS ControlLoop, TLAPS

OnTheLink == {"setpoint", "word"}
Sending == {"authority"} \cup OnTheLink
Follow == [proven : BOOLEAN, misses : 0 .. DampingPolls,
           resends : 0 .. FollowResends, notAccepted : BOOLEAN]
Device == [word : Methods, battery : BatteryCommands \cup {None}, feed : FeedCommands \cup {None}]

(* A send carries what its command needs.                                  *)
Sound(j) ==
    /\ j.value # None => j.register = Method(j.value)
    /\ j.goal # None =>
          /\ j.word = Method(j.goal)
          /\ CommandsPower(j.goal) => j.register = Method(j.goal) /\ j.value = j.goal
          /\ j.at \in {"authority", "setpoint"} => j.register # "default"

JobsAreSound == \A a \in Tasks : Sound(job[a])

(* Who waits for the link has a request for it, and one only.              *)
QueueIsSound ==
    /\ \A i \in 1 .. Len(link) : job[link[i]].at \in OnTheLink
    /\ \A i, k \in 1 .. Len(link) : link[i] = link[k] => i = k

BaseInv == TypeOK /\ JobsAreSound /\ QueueIsSound

-----------------------------------------------------------------------------
(* The operators.                                                          *)

LEMMA MethodTypes ==
    ASSUME NEW c \in Features
    PROVE  /\ Method(c) \in Methods
           /\ CommandsPower(c) => Method(c) \in {"battery", "feed"} /\ c # None
           /\ ~CommandsPower(c) => c = Automatic /\ Method(c) = "default"
BY CommandsAreDistinct DEF Method, Methods, CommandsPower, Features, Commands

LEMMA IdleIsSound == Idle \in Jobs /\ Sound(Idle)
BY DEF Idle, Jobs, Sound, Methods

LEMMA FollowExcept ==
    ASSUME NEW P, NEW M, NEW R, NEW N, NEW m \in M, NEW r \in R, NEW n \in N,
           NEW f \in [proven : P, misses : M, resends : R, notAccepted : N]
    PROVE  /\ [f EXCEPT !.misses = m, !.resends = r]
                \in [proven : P, misses : M, resends : R, notAccepted : N]
           /\ [f EXCEPT !.misses = m, !.notAccepted = n]
                \in [proven : P, misses : M, resends : R, notAccepted : N]
           /\ [f EXCEPT !.resends = r, !.notAccepted = n]
                \in [proven : P, misses : M, resends : R, notAccepted : N]
OBVIOUS

LEMMA FollowedTypes ==
    ASSUME NEW c, NEW f \in Follow, NEW age
    PROVE  CheckFollowed(c, f, age).f \in Follow /\ CheckFollowed(c, f, age).resend \in BOOLEAN
<1>1. DampingPolls \in Nat \ {0} /\ FollowResends \in Nat
  BY KindsAreKnown
<1>2. NothingFollowed \in Follow
  BY <1>1 DEF NothingFollowed, Follow
<1>3. /\ f.proven \in BOOLEAN /\ f.notAccepted \in BOOLEAN
      /\ f.misses \in 0 .. DampingPolls /\ f.resends \in 0 .. FollowResends
  BY DEF Follow
<1>4. [NothingFollowed EXCEPT !.proven = TRUE] \in Follow
  BY <1>2 DEF Follow
<1>5. f.misses + 1 < DampingPolls => [f EXCEPT !.misses = f.misses + 1] \in Follow
  BY <1>1, <1>3 DEF Follow
<1>6. f.resends < FollowResends => [f EXCEPT !.misses = 0, !.resends = f.resends + 1] \in Follow
  <2>1. f.resends < FollowResends => f.resends + 1 \in 0 .. FollowResends /\ 0 \in 0 .. DampingPolls
    BY <1>1, <1>3
  <2> QED
    BY <2>1, FollowExcept DEF Follow
<1>7. [f EXCEPT !.misses = 0, !.notAccepted = TRUE] \in Follow
  <2>1. 0 \in 0 .. DampingPolls
    BY <1>1
  <2> QED
    BY <2>1, FollowExcept DEF Follow
<1> QED
  BY <1>4, <1>5, <1>6, <1>7 DEF CheckFollowed

LEMMA CommitTypes ==
    ASSUME TypeOK, NEW a, NEW c \in Features, NEW staleNow \in BOOLEAN,
           NEW age \in {"grace", "dwell", "old"}, Commit(a, c, staleNow, age)
    PROVE  /\ commanded' = c /\ stale' \in BOOLEAN /\ follow' \in Follow
           /\ written' \in {"grace", "dwell", "old"}
           /\ staleNow => stale'
<1>1. DampingPolls \in Nat \ {0} /\ FollowResends \in Nat
  BY KindsAreKnown
<1>2. follow \in Follow
  BY DEF TypeOK, Follow
<1>3. [follow EXCEPT !.resends = 0, !.notAccepted = FALSE] \in Follow
  <2>1. 0 \in 0 .. FollowResends
    BY <1>1
  <2> QED
    BY <1>2, <2>1, FollowExcept DEF Follow
<1> DEFINE f == IF c = commanded THEN follow
                ELSE [follow EXCEPT !.resends = 0, !.notAccepted = FALSE]
<1>4. f \in Follow
  BY <1>2, <1>3
<1>5. CheckFollowed(c, f, age).f \in Follow /\ CheckFollowed(c, f, age).resend \in BOOLEAN
  BY <1>4, FollowedTypes
<1> QED
  BY <1>4, <1>5 DEF Commit

-----------------------------------------------------------------------------
(* What a step does to the jobs and the link.                              *)

Stays == UNCHANGED <<job, link>>
Changes(a, j) ==
    /\ a \in Tasks /\ job[a].at \notin OnTheLink
    /\ Doing(a, j) /\ link' = link
Joins(a, j) ==
    /\ a \in Tasks /\ job[a].at \notin OnTheLink /\ j.at \in OnTheLink
    /\ Doing(a, j) /\ link' = Append(link, a)
GoesOn(j) ==
    /\ link # <<>> /\ j.at \in OnTheLink
    /\ Doing(Head(link), j) /\ link' = Append(Tail(link), Head(link))
Leaves == link # <<>> /\ Doing(Head(link), Idle) /\ link' = Tail(link)
Resets == job' = [a \in Tasks |-> Idle] /\ link' = <<>>

Fits(j) == j \in Jobs /\ Sound(j)

JobStep ==
    \/ Stays \/ Leaves \/ Resets
    \/ \E a \in Tasks : \E j : Fits(j) /\ (Changes(a, j) \/ Joins(a, j))
    \/ \E j : Fits(j) /\ GoesOn(j)

LEMMA HeadIsATask == ASSUME BaseInv, link # <<>>
                     PROVE  Head(link) \in Tasks /\ job[Head(link)].at \in OnTheLink
<1>1. link \in Seq(Tasks) /\ Len(link) >= 1
  BY DEF BaseInv, TypeOK
<1> QED
  BY <1>1 DEF BaseInv, QueueIsSound

LEMMA JobStepKeeps ==
    ASSUME BaseInv, JobStep
    PROVE  job' \in [Tasks -> Jobs] /\ link' \in Seq(Tasks) /\ JobsAreSound' /\ QueueIsSound'
<1>0. job \in [Tasks -> Jobs] /\ link \in Seq(Tasks) /\ JobsAreSound /\ QueueIsSound
  BY DEF BaseInv, TypeOK
<1>a. ASSUME NEW a \in Tasks, NEW j, Fits(j), Doing(a, j)
      PROVE  job' \in [Tasks -> Jobs] /\ JobsAreSound'
  BY <1>0, <1>a DEF Doing, Fits, JobsAreSound
<1>1. CASE Stays
  BY <1>0, <1>1 DEF Stays, JobsAreSound, QueueIsSound
<1>2. CASE Resets
  BY <1>2, IdleIsSound DEF Resets, JobsAreSound, QueueIsSound
<1>3. ASSUME NEW a \in Tasks, NEW j, Fits(j), Changes(a, j)
      PROVE  job' \in [Tasks -> Jobs] /\ link' \in Seq(Tasks) /\ JobsAreSound' /\ QueueIsSound'
  <2>1. \A i \in 1 .. Len(link) : link[i] # a /\ job'[link[i]] = job[link[i]]
    BY <1>0, <1>3 DEF Changes, Doing, QueueIsSound
  <2> QED
    BY <1>0, <1>3, <1>a, <2>1 DEF Changes, QueueIsSound
<1>4. ASSUME NEW a \in Tasks, NEW j, Fits(j), Joins(a, j)
      PROVE  job' \in [Tasks -> Jobs] /\ link' \in Seq(Tasks) /\ JobsAreSound' /\ QueueIsSound'
  <2>1. \A i \in 1 .. Len(link) : link[i] # a /\ job'[link[i]] = job[link[i]]
    BY <1>0, <1>4 DEF Joins, Doing, QueueIsSound
  <2>2. job'[a] = j /\ j.at \in OnTheLink
    BY <1>0, <1>4 DEF Joins, Doing
  <2>3. /\ link' \in Seq(Tasks) /\ Len(link') = Len(link) + 1
        /\ \A i \in 1 .. Len(link) : link'[i] = link[i]
        /\ link'[Len(link) + 1] = a
    BY <1>0, <1>4 DEF Joins
  <2>4. QueueIsSound'
    BY <1>0, <2>1, <2>2, <2>3 DEF QueueIsSound
  <2> QED
    BY <1>4, <1>a, <2>3, <2>4 DEF Joins
<1>b. ASSUME link # <<>>
      PROVE  /\ Head(link) = link[1] /\ Tail(link) \in Seq(Tasks) /\ Len(Tail(link)) = Len(link) - 1
             /\ \A i \in 1 .. Len(Tail(link)) : Tail(link)[i] = link[i + 1] /\ link[i + 1] # Head(link)
             /\ Len(link) \in Nat /\ Len(link) >= 1 /\ Head(link) \in Tasks
  <2>1. Head(link) = link[1] /\ Tail(link) \in Seq(Tasks) /\ Len(Tail(link)) = Len(link) - 1
    BY <1>0, <1>b
  <2>2. Len(link) \in Nat /\ Len(link) >= 1 /\ Head(link) \in Tasks
    BY <1>0, <1>b
  <2>3. \A i \in 1 .. Len(Tail(link)) : Tail(link)[i] = link[i + 1]
    BY <1>0, <1>b
  <2>4. \A i \in 1 .. Len(Tail(link)) : link[i + 1] # Head(link)
    BY <1>0, <2>1, <2>2 DEF QueueIsSound
  <2> QED
    BY <2>1, <2>2, <2>3, <2>4
<1>5. CASE Leaves
  <2>1. \A i \in 1 .. Len(Tail(link)) : job'[Tail(link)[i]] = job[Tail(link)[i]]
    BY <1>0, <1>5, <1>b DEF Leaves, Doing
  <2>2. QueueIsSound'
    BY <1>0, <1>5, <1>b, <2>1 DEF Leaves, QueueIsSound
  <2> QED
    BY <1>5, <1>a, <1>b, <2>2, IdleIsSound DEF Leaves, Fits
<1>6. ASSUME NEW j, Fits(j), GoesOn(j)
      PROVE  job' \in [Tasks -> Jobs] /\ link' \in Seq(Tasks) /\ JobsAreSound' /\ QueueIsSound'
  <2>1. link # <<>> /\ j.at \in OnTheLink /\ job'[Head(link)] = j
    BY <1>0, <1>6, <1>b DEF GoesOn, Doing
  <2>2. \A i \in 1 .. Len(Tail(link)) : job'[Tail(link)[i]] = job[Tail(link)[i]]
    BY <1>0, <1>6, <1>b, <2>1 DEF GoesOn, Doing
  <2>3. /\ link' \in Seq(Tasks) /\ Len(link') = Len(link)
        /\ \A i \in 1 .. Len(link) - 1 : link'[i] = Tail(link)[i]
        /\ link'[Len(link)] = Head(link)
    BY <1>6, <1>b, <2>1 DEF GoesOn
  <2>4. QueueIsSound'
    <3>1. \A i \in 1 .. Len(link) - 1 : link'[i] = link[i + 1] /\ link[i + 1] # Head(link)
      BY <1>b, <2>1, <2>3
    <3>2. \A i \in 1 .. Len(link) - 1 : job'[link'[i]].at \in OnTheLink
      BY <1>0, <1>b, <2>1, <2>2, <2>3, <3>1 DEF QueueIsSound
    <3>3. \A i, k \in 1 .. Len(link) - 1 : link'[i] = link'[k] => i = k
      BY <1>0, <1>b, <2>1, <3>1 DEF QueueIsSound
    <3>4. \A i \in 1 .. Len(link) : i \in 1 .. Len(link) - 1 \/ i = Len(link)
      BY <1>b, <2>1
    <3> QED
      BY <2>1, <2>3, <3>1, <3>2, <3>3, <3>4 DEF QueueIsSound
  <2> QED
    BY <1>6, <1>a, <1>b, <2>1, <2>3, <2>4 DEF GoesOn
<1> QED
  BY <1>1, <1>2, <1>3, <1>4, <1>5, <1>6 DEF JobStep

-----------------------------------------------------------------------------
(* What the handlers do, in these shapes.                                  *)

(* The send of c, in the place it waits at.                                *)
SendRegister(c) == IF CommandsPower(c) THEN Method(c) ELSE Method(commanded)
SendJob(c, at) == [at |-> at, goal |-> c, register |-> SendRegister(c),
                   value |-> IF CommandsPower(c) THEN c ELSE None, word |-> Method(c)]

LEMMA SendFits ==
    ASSUME commanded \in Features, NEW c \in Features, NEW at \in {"authority", "word"},
           at = "authority" => SendRegister(c) # "default"
    PROVE  Fits(SendJob(c, at))
<1>1. Method(c) \in Methods /\ Method(commanded) \in Methods /\ SendRegister(c) \in Methods
  BY MethodTypes DEF SendRegister
<1>2. SendJob(c, at) \in Jobs
  BY <1>1 DEF SendJob, Jobs, CommandsPower
<1>3. Sound(SendJob(c, at))
  BY <1>1 DEF SendJob, Sound, SendRegister
<1> QED
  BY <1>2, <1>3 DEF Fits

(* Given up, off to the authority, or straight at the control word.        *)
LEMMA StartSendSteps ==
    ASSUME BaseInv, NEW a \in Tasks, job[a] = Idle, NEW c \in Features, StartSend(a, c)
    PROVE  \/ Changes(a, Idle)
           \/ enabled /\ SendRegister(c) # "default" /\ Changes(a, SendJob(c, "authority"))
           \/ SendRegister(c) = "default" /\ Joins(a, SendJob(c, "word"))
BY DEF StartSend, SendRegister, SendJob, Changes, Joins, Idle, OnTheLink

LEMMA StartSendIsAJobStep ==
    ASSUME BaseInv, NEW a \in Tasks, job[a] = Idle, NEW c \in Features, StartSend(a, c)
    PROVE  JobStep
<1>1. commanded \in Features
  BY DEF BaseInv, TypeOK
<1>2. Fits(Idle)
  BY IdleIsSound DEF Fits
<1>3. SendRegister(c) # "default" => Fits(SendJob(c, "authority"))
  BY <1>1, SendFits
<1>4. Fits(SendJob(c, "word"))
  BY <1>1, SendFits
<1> QED
  BY <1>2, <1>3, <1>4, StartSendSteps DEF JobStep

(* It waits for the dwell, finds nothing to send, or begins to send.       *)
Waits == Stays /\ UNCHANGED told
Agrees(c) ==
    /\ Stays /\ c = commanded /\ commanded' = commanded
    /\ ~stale /\ (enabled => lease) /\ stale' \in BOOLEAN
    /\ written' = written /\ follow' \in Follow
Sends(a, c) ==
    /\ stale' = (stale \/ (enabled /\ ~lease))
    /\ UNCHANGED <<commanded, written, follow>>
    /\ StartSend(a, c)

LEMMA ApplySteps ==
    ASSUME BaseInv, NEW a \in Tasks, NEW w \in Features, NEW o \in Features \cup {None},
           NEW force, Apply(a, w, o, force)
    PROVE  /\ Desired(w, o) \in Features
           /\ Waits \/ Agrees(Desired(w, o)) \/ Sends(a, Desired(w, o))
<1> DEFINE c == Desired(w, o)
<1>1. c \in Features
  BY CommandsAreDistinct DEF Desired, Features
<1>2. TypeOK /\ stale \in BOOLEAN /\ enabled \in BOOLEAN /\ lease \in BOOLEAN
  BY DEF BaseInv, TypeOK
<1>3. ASSUME Commit(a, c, FALSE, written)
      PROVE  commanded' = c /\ stale' \in BOOLEAN /\ written' = written /\ follow' \in Follow
  <2>1. FALSE \in BOOLEAN /\ written \in {"grace", "dwell", "old"}
    BY <1>2 DEF TypeOK
  <2>2. written' = written
    BY <1>3 DEF Commit
  <2> QED
    BY <1>1, <1>2, <1>3, <2>1, <2>2, CommitTypes
<1> QED
  BY <1>1, <1>2, <1>3 DEF Apply, Waits, Agrees, Sends, Stays, told

LEMMA ApplyKeeps ==
    ASSUME BaseInv, NEW a \in Tasks, job[a] = Idle, NEW w \in Features,
           NEW o \in Features \cup {None}, NEW force, Apply(a, w, o, force)
    PROVE  /\ JobStep /\ wish' = w /\ override' = o
           /\ commanded' \in Features /\ stale' \in BOOLEAN
           /\ written' \in {"grace", "dwell", "old"} /\ follow' \in Follow
<1>0. /\ commanded \in Features /\ written \in {"grace", "dwell", "old"}
      /\ stale \in BOOLEAN /\ enabled \in BOOLEAN /\ lease \in BOOLEAN /\ follow \in Follow
  BY DEF BaseInv, TypeOK, Follow
<1>1. wish' = w /\ override' = o
  BY DEF Apply
<1>2. Desired(w, o) \in Features
  BY ApplySteps
<1>3. CASE Waits
  BY <1>0, <1>1, <1>3 DEF Waits, told, JobStep
<1>4. CASE Agrees(Desired(w, o))
  BY <1>0, <1>1, <1>4 DEF Agrees, JobStep
<1>5. CASE Sends(a, Desired(w, o))
  <2>1. JobStep
    BY <1>2, <1>5, StartSendIsAJobStep DEF Sends
  <2> QED
    BY <1>0, <1>1, <1>5, <2>1 DEF Sends
<1> QED
  BY <1>3, <1>4, <1>5, ApplySteps

-----------------------------------------------------------------------------
(* Types, jobs and queue.                                                  *)

(* TypeOK without the jobs and the link.                                   *)
Values ==
    /\ trouble \in Troubles
    /\ enabled \in BOOLEAN /\ testing \in BOOLEAN /\ expiring \in BOOLEAN
    /\ stale \in BOOLEAN /\ connected \in BOOLEAN /\ lease \in BOOLEAN
    /\ wish \in Features /\ override \in Features \cup {None}
    /\ commanded \in Features
    /\ written \in {"grace", "dwell", "old"}
    /\ report \in [manual : BOOLEAN, method : Methods]
    /\ follow \in Follow
    /\ device \in Device

LEMMA TypeParts == TypeOK <=> Values /\ job \in [Tasks -> Jobs] /\ link \in Seq(Tasks)
BY DEF TypeOK, Values, Follow, Device

LEMMA StepKeepsBase == ASSUME BaseInv, JobStep, Values' PROVE BaseInv'
BY JobStepKeeps DEF BaseInv, TypeOK, Values, Follow, Device

LEMMA InitBase == Init => BaseInv
<1> SUFFICES ASSUME Init PROVE BaseInv
  OBVIOUS
<1>1. DampingPolls \in Nat \ {0} /\ FollowResends \in Nat
  BY KindsAreKnown
<1>2. Values
  <2>1. report \in [manual : BOOLEAN, method : Methods] /\ device \in Device
    BY DEF Init, Blank, Device, Methods, NoReport
  <2>2. follow \in Follow
    BY <1>1 DEF Init, NothingFollowed, Follow
  <2> QED
    BY <2>1, <2>2 DEF Init, Values, Features
<1>3. job \in [Tasks -> Jobs] /\ link \in Seq(Tasks) /\ JobsAreSound /\ QueueIsSound
  BY IdleIsSound DEF Init, JobsAreSound, QueueIsSound
<1> QED
  BY <1>2, <1>3, TypeParts DEF BaseInv

LEMMA StoredTypes ==
    ASSUME device \in Device, NEW j \in Jobs, Sound(j)
    PROVE  Stored(j) \in Device
<1>1. j.word \in Methods /\ j.register \in Methods /\ j.value \in Commands \cup {None}
  BY DEF Jobs
<1>2. CASE j.at = "word"
  BY <1>1, <1>2 DEF Stored, Device
<1>3. CASE j.at # "word" /\ j.register = "default"
  BY <1>3 DEF Stored, Device
<1>4. CASE j.at # "word" /\ j.register = "battery"
  <2>1. j.value \in BatteryCommands \cup {None}
    BY <1>1, <1>4 DEF Sound, Method, Commands
  <2> QED
    BY <1>4, <2>1 DEF Stored, Device
<1>5. CASE j.at # "word" /\ j.register = "feed"
  <2>1. j.value \in FeedCommands \cup {None}
    BY <1>1, <1>5 DEF Sound, Method, Commands
  <2> QED
    BY <1>5, <2>1 DEF Stored, Device
<1> QED
  BY <1>1, <1>2, <1>3, <1>4, <1>5 DEF Methods

(* What a request that got through leaves, goal by goal.                   *)
LEMMA DeliveredTypes ==
    ASSUME BaseInv, NEW a \in Tasks, Delivered(a)
    PROVE  /\ commanded' \in Features /\ stale' \in BOOLEAN /\ follow' \in Follow
           /\ written' \in {"grace", "dwell", "old"}
<1>1. TypeOK /\ Values /\ job[a] \in Jobs
  BY TypeParts DEF BaseInv
<1>2. CASE job[a].goal = None
  BY <1>1, <1>2 DEF Delivered, Values
<1>3. CASE job[a].goal # None
  <2>1. job[a].goal \in Features
    BY <1>1, <1>3 DEF Jobs
  <2>2. Commit(a, job[a].goal, FALSE, "grace")
    BY <1>3 DEF Delivered
  <2>3. FALSE \in BOOLEAN /\ "grace" \in {"grace", "dwell", "old"}
    OBVIOUS
  <2> QED
    BY <1>1, <2>1, <2>2, <2>3, CommitTypes
<1> QED
  BY <1>2, <1>3

LEMMA NextBase == ASSUME BaseInv, [Next]_vars PROVE BaseInv'
<1>0. /\ TypeOK /\ Values /\ job \in [Tasks -> Jobs] /\ link \in Seq(Tasks)
      /\ JobsAreSound /\ QueueIsSound
  BY TypeParts DEF BaseInv
<1> SUFFICES JobStep /\ Values'
  BY StepKeepsBase
<1>i. Fits(Idle) /\ Idle.at \notin OnTheLink
  BY IdleIsSound DEF Fits, Idle, OnTheLink
<1>t. Poll \in Tasks /\ Switch \in Tasks /\ Users \subseteq Tasks
  BY DEF Tasks
<1>1. CASE PollApplies
  <2>1. PICK o \in Overrides \cup {None}, expired \in BOOLEAN :
          /\ expiring' = (expiring /\ ~expired)
          /\ report' = IF Reports THEN [manual |-> lease, method |-> device.word] ELSE NoReport
          /\ Apply(Poll, IF expired THEN Automatic ELSE wish, o, FALSE)
    BY <1>1 DEF PollApplies
  <2>2. /\ (IF expired THEN Automatic ELSE wish) \in Features
        /\ o \in Features \cup {None}
    BY <1>0, CommandsAreDistinct DEF Values, Features
  <2>3. job[Poll] = Idle
    BY <1>1 DEF PollApplies, MayBegin
  <2>4. report' \in [manual : BOOLEAN, method : Methods]
    BY <1>0, <2>1 DEF Values, Device, NoReport, Methods
  <2>5. JobStep /\ wish' \in Features /\ override' \in Features \cup {None}
        /\ commanded' \in Features /\ stale' \in BOOLEAN
        /\ written' \in {"grace", "dwell", "old"} /\ follow' \in Follow
    BY <1>t, <2>1, <2>2, <2>3, ApplyKeeps
  <2>6. expiring' \in BOOLEAN /\ UNCHANGED <<trouble, enabled, testing, connected, lease, device>>
    BY <1>0, <1>1, <2>1 DEF PollApplies, outside, Values
  <2> QED
    BY <1>0, <2>4, <2>5, <2>6 DEF Values
<1>2. ASSUME NEW u \in Users, UserCommands(u)
      PROVE  JobStep /\ Values'
  <2>1. PICK c \in Features, timed \in BOOLEAN :
          /\ expiring' = timed
          /\ IF testing
             THEN wish' = c /\ UNCHANGED <<override, told, job, link>>
             ELSE Apply(u, c, override, TRUE)
    BY <1>2 DEF UserCommands
  <2>2. job[u] = Idle /\ UNCHANGED <<trouble, enabled, testing, report, connected, lease, device>>
    BY <1>2 DEF UserCommands, MayBegin, outside
  <2>3. CASE testing
    BY <1>0, <2>1, <2>2, <2>3 DEF Values, told, JobStep, Stays
  <2>4. CASE ~testing
    <3>1. override \in Features \cup {None}
      BY <1>0 DEF Values
    <3>2. JobStep /\ wish' \in Features /\ override' \in Features \cup {None}
          /\ commanded' \in Features /\ stale' \in BOOLEAN
          /\ written' \in {"grace", "dwell", "old"} /\ follow' \in Follow
      BY <1>t, <2>1, <2>2, <2>4, <3>1, ApplyKeeps
    <3> QED
      BY <1>0, <2>1, <2>2, <3>2 DEF Values
  <2> QED
    BY <2>3, <2>4
<1>3. ASSUME NEW a \in Tasks, Authorized(a)
      PROVE  JobStep /\ Values'
  <2>1. job[a] \in Jobs /\ Sound(job[a])
    BY <1>0 DEF JobsAreSound
  <2> DEFINE j == IF job[a].register = "default" THEN [job[a] EXCEPT !.at = "word"]
                  ELSE [job[a] EXCEPT !.at = "setpoint"]
  <2>2. Fits(j) /\ j.at \in OnTheLink
    BY <2>1 DEF Fits, Jobs, Sound, OnTheLink
  <2>3. Joins(a, j)
    BY <1>3, <2>2 DEF Authorized, Joins, OnTheLink
  <2> HIDE DEF j
  <2>4. JobStep
    BY <2>2, <2>3 DEF JobStep
  <2> QED
    BY <1>0, <1>3, <2>4 DEF Authorized, Values, wishes, told
<1>4. ASSUME NEW a \in Tasks, Denied(a)
      PROVE  JobStep /\ Values'
  <2>1. Changes(a, Idle)
    BY <1>4 DEF Denied, Changes, OnTheLink, outside
  <2> QED
    BY <1>0, <1>4, <1>i, <2>1 DEF Denied, Values, wishes, told, outside, JobStep
<1>5. CASE Answered
  <2> DEFINE a == Head(link)
  <2>1. /\ link # <<>> /\ device' = Stored(job[a])
        /\ UNCHANGED <<trouble, enabled, testing, wishes, report, connected, lease>>
        /\ IF job[a].at = "setpoint" /\ (job[a].word # Method(commanded) \/ stale)
           THEN /\ Doing(a, [job[a] EXCEPT !.at = "word"])
                /\ link' = Append(Tail(link), a)
                /\ UNCHANGED told
           ELSE Doing(a, Idle) /\ link' = Tail(link) /\ Delivered(a)
    BY <1>5 DEF Answered
  <2>2. a \in Tasks /\ job[a] \in Jobs /\ Sound(job[a])
    BY <1>0, <2>1, HeadIsATask DEF JobsAreSound
  <2>3. device' \in Device
    BY <1>0, <2>1, <2>2, StoredTypes DEF Values
  <2>4. CASE job[a].at = "setpoint" /\ (job[a].word # Method(commanded) \/ stale)
    <3> DEFINE j == [job[a] EXCEPT !.at = "word"]
    <3>1. Fits(j) /\ j.at \in OnTheLink
      BY <2>2 DEF Fits, Jobs, Sound, OnTheLink
    <3>2. GoesOn(j)
      BY <2>1, <2>4, <3>1 DEF GoesOn
    <3> HIDE DEF j
    <3>3. JobStep
      BY <3>1, <3>2 DEF JobStep
    <3> QED
      BY <1>0, <2>1, <2>3, <2>4, <3>3 DEF Values, wishes, told
  <2>5. CASE ~(job[a].at = "setpoint" /\ (job[a].word # Method(commanded) \/ stale))
    <3>1. Doing(a, Idle) /\ link' = Tail(link) /\ Delivered(a)
      BY <2>1, <2>5
    <3>2. /\ commanded' \in Features /\ stale' \in BOOLEAN /\ follow' \in Follow
          /\ written' \in {"grace", "dwell", "old"}
      BY <2>2, <3>1, DeliveredTypes
    <3>3. JobStep
      BY <2>1, <3>1 DEF JobStep, Leaves
    <3> QED
      BY <1>0, <2>1, <2>3, <3>2, <3>3 DEF Values, wishes
  <2> QED
    BY <2>4, <2>5
<1>6. CASE Failed
  <2>1. Head(link) \in Tasks /\ job[Head(link)] \in Jobs /\ Sound(job[Head(link)])
    BY <1>0, <1>6, HeadIsATask DEF JobsAreSound, Failed
  <2>2. Stored(job[Head(link)]) \in Device
    BY <1>0, <2>1, StoredTypes DEF Values
  <2>3. device' \in Device
    BY <1>0, <1>6, <2>2 DEF Failed, Values
  <2>4. JobStep
    BY <1>6 DEF Failed, JobStep, Leaves
  <2> QED
    BY <1>0, <1>6, <2>3, <2>4 DEF Failed, Values, wishes, told
<1>7. CASE SwitchSaver
  <2> DEFINE saver(at) == [at |-> at, goal |-> None, register |-> "default", value |-> None,
                           word |-> Method(commanded)]
  <2>1. Method(commanded) \in Methods
    BY <1>0, MethodTypes DEF Values
  <2>3. Fits(saver("authority")) /\ Fits(saver("word")) /\ saver("word").at \in OnTheLink
    BY <2>1 DEF Fits, Jobs, Sound, Methods, OnTheLink
  <2>4. job[Switch].at \notin OnTheLink
    BY <1>7, <1>i DEF SwitchSaver, MayBegin
  <2>5. Changes(Switch, saver("authority")) \/ Joins(Switch, saver("word"))
    BY <1>7, <1>t, <2>3, <2>4 DEF SwitchSaver, Changes, Joins
  <2> HIDE DEF saver
  <2>6. JobStep
    BY <1>t, <2>3, <2>5 DEF JobStep
  <2> QED
    BY <1>0, <1>7, <2>6 DEF SwitchSaver, Values, wishes, told, outside
<1>8. CASE SwitchOn
  BY <1>0, <1>8 DEF SwitchOn, Values, wishes, outside, JobStep, Stays
<1>9. CASE SwitchOff
  <2> DEFINE j == [Idle EXCEPT !.at = "stopping"]
  <2>1. Fits(j)
    BY DEF Fits, Jobs, Sound, Idle, Methods
  <2>2. Changes(Switch, j)
    BY <1>9, <1>i, <1>t DEF SwitchOff, MayBegin, Changes
  <2> HIDE DEF j
  <2>3. JobStep
    BY <1>t, <2>1, <2>2 DEF JobStep
  <2> QED
    BY <1>0, <1>9, <2>3 DEF SwitchOff, Values, wishes, told, outside
<1>10. CASE StartOver
  <2>1. Changes(Switch, Idle)
    BY <1>10, <1>t DEF StartOver, Changes, OnTheLink
  <2> QED
    BY <1>0, <1>10, <1>i, <1>t, <2>1 DEF StartOver, Values, outside, JobStep, Features
<1>11. CASE BeginTest
  BY <1>0, <1>11 DEF BeginTest, Values, wishes, told, outside, JobStep, Stays
<1>12. CASE EndTest
  <2>1. device' \in Device
    BY <1>0, <1>12 DEF EndTest, Values, Device, Methods
  <2> QED
    BY <1>0, <1>12, <2>1 DEF EndTest, Values, wishes, JobStep, Stays
<1>13. CASE Restart
  <2>1. DampingPolls \in Nat \ {0} /\ FollowResends \in Nat
    BY KindsAreKnown
  <2>2. report' \in [manual : BOOLEAN, method : Methods] /\ follow' \in Follow
    BY <1>13, <2>1 DEF Restart, NoReport, Methods, NothingFollowed, Follow
  <2> QED
    BY <1>0, <1>13, <2>2 DEF Restart, Values, Features, JobStep, Resets
<1>14. CASE Disconnect \/ Reconnect
  BY <1>0, <1>14 DEF Disconnect, Reconnect, Values, wishes, told, JobStep, Stays
<1>15. CASE Lapse \/ Beat
  BY <1>0, <1>15 DEF Lapse, Beat, Values, wishes, told, JobStep, Stays
<1>16. CASE Forget
  <2>1. device' \in Device
    BY <1>0, <1>16 DEF Forget, Values, Device, Methods, Blank
  <2> QED
    BY <1>0, <1>16, <2>1 DEF Forget, Values, wishes, told, JobStep, Stays
<1>17. CASE Age
  BY <1>0, <1>17 DEF Age, Values, wishes, outside, JobStep, Stays
<1>18. CASE UNCHANGED vars
  BY <1>0, <1>18 DEF vars, Values, wishes, told, outside, JobStep, Stays
<1> QED
  BY <1>1, <1>2, <1>3, <1>4, <1>5, <1>6, <1>7, <1>8, <1>9, <1>10, <1>11, <1>12, <1>13, <1>14,
     <1>15, <1>16, <1>17, <1>18 DEF Next

(* Everything is of its type, whatever is commanded and goes wrong: the    *)
(* counts of the follow check stay within their limits, and the inverter's *)
(* setpoints are of the mode their register is for.                        *)
THEOREM ControlLoopTypes == Spec => []TypeOK
<1>1. BaseInv => TypeOK
  BY DEF BaseInv
<1> QED
  BY <1>1, InitBase, NextBase, PTL DEF Spec

THEOREM BaseAlways == Spec => []BaseInv
BY InitBase, NextBase, PTL DEF Spec

-----------------------------------------------------------------------------
(* What async_apply does to the jobs.                                      *)
LEMMA ApplyJobs ==
    ASSUME BaseInv, NEW a \in Tasks, job[a] = Idle, NEW w \in Features,
           NEW o \in Features \cup {None}, NEW force, Apply(a, w, o, force)
    PROVE  /\ \A b \in Tasks : b # a => job'[b] = job[b]
           /\ job'[a].at \in {"idle", "authority", "word"}
           /\ link' = link \/ link' = Append(link, a)
<1>0. job \in [Tasks -> Jobs]
  BY TypeParts DEF BaseInv
<1>1. CASE Waits \/ Agrees(Desired(w, o))
  BY <1>0, <1>1 DEF Waits, Agrees, Stays, Idle
<1>2. CASE Sends(a, Desired(w, o))
  <2>1. \/ Changes(a, Idle)
        \/ Changes(a, SendJob(Desired(w, o), "authority"))
        \/ Joins(a, SendJob(Desired(w, o), "word"))
    BY <1>2, ApplySteps, StartSendSteps DEF Sends
  <2> QED
    BY <1>0, <2>1 DEF Changes, Joins, Doing, Idle, SendJob
<1> QED
  BY <1>1, <1>2, ApplySteps

(* A poll applies some selection under some readings, a command the        *)
(* selection it makes.                                                     *)
LEMMA PollSteps ==
    ASSUME BaseInv, PollApplies
    PROVE  \E w \in Features, o \in Features \cup {None} :
              /\ Apply(Poll, w, o, FALSE) /\ w \in {wish, Automatic}
              /\ expiring' => expiring
<1>1. PICK o \in Overrides \cup {None}, expired \in BOOLEAN :
        /\ expiring' = (expiring /\ ~expired)
        /\ Apply(Poll, IF expired THEN Automatic ELSE wish, o, FALSE)
  BY DEF PollApplies
<1>2. o \in Features \cup {None} /\ wish \in Features /\ Automatic \in Features
  BY CommandsAreDistinct DEF BaseInv, TypeOK, Features
<1> QED
  BY <1>1, <1>2

LEMMA CommandSteps ==
    ASSUME BaseInv, NEW u \in Users, UserCommands(u)
    PROVE  /\ \/ testing /\ UNCHANGED <<override, told, job, link>>
              \/ /\ override \in Features \cup {None}
                 /\ wish' \in Features /\ Apply(u, wish', override, TRUE)
           /\ ~enabled => wish' = Automatic /\ ~expiring'
<1>1. PICK c \in Features, timed \in BOOLEAN :
        /\ c = Automatic \/ MayCommand
        /\ timed => c # Automatic
        /\ expiring' = timed
        /\ IF testing
           THEN wish' = c /\ UNCHANGED <<override, told, job, link>>
           ELSE Apply(u, c, override, TRUE)
  BY DEF UserCommands
<1>2. wish' = c
  BY <1>1 DEF Apply
<1> QED
  BY <1>1, <1>2 DEF BaseInv, TypeOK, MayCommand

-----------------------------------------------------------------------------
(* Off.  Switching off takes a while, and until its end the mode that was  *)
(* selected still is.                                                      *)
OffInv ==
    /\ job[Switch].at = "stopping" => ~enabled
    /\ NoModeWhileOff

LEMMA NextOff == ASSUME BaseInv, OffInv, [Next]_vars PROVE OffInv'
<1>0. /\ job \in [Tasks -> Jobs] /\ Values
      /\ Poll \in Tasks /\ Switch \in Tasks /\ Users \subseteq Tasks
      /\ Poll # Switch /\ \A u \in Users : u # Switch
  BY TypeParts, TasksAreDistinct DEF BaseInv, Tasks
<1>j. ASSUME NEW a \in Tasks, NEW j, Doing(a, j), job[a].at # "stopping", j.at # "stopping",
             UNCHANGED <<enabled, wish, expiring>>
      PROVE  OffInv'
  BY <1>0, <1>j DEF Doing, OffInv, NoModeWhileOff
<1>s. ASSUME job' = job, UNCHANGED <<enabled, wish, expiring>>
      PROVE  OffInv'
  BY <1>0, <1>s DEF OffInv, NoModeWhileOff
<1>l. link # <<>> => Head(link) \in Tasks /\ job[Head(link)].at # "stopping"
  BY HeadIsATask DEF OnTheLink
<1>i. Idle.at # "stopping"
  BY DEF Idle
<1>1. CASE PollApplies
  <2>1. PICK w \in Features, o \in Features \cup {None} :
          Apply(Poll, w, o, FALSE) /\ w \in {wish, Automatic} /\ (expiring' => expiring)
    BY <1>1, PollSteps
  <2>2. job[Poll] = Idle /\ enabled' = enabled /\ wish' = w
    BY <1>1, <2>1 DEF PollApplies, MayBegin, Apply
  <2>3. job'[Switch] = job[Switch]
    BY <1>0, <2>1, <2>2, ApplyJobs
  <2> QED
    BY <2>1, <2>2, <2>3 DEF OffInv, NoModeWhileOff
<1>2. ASSUME NEW u \in Users, UserCommands(u)
      PROVE  OffInv'
  <2>1. job[u] = Idle /\ enabled' = enabled
    BY <1>2 DEF UserCommands, MayBegin
  <2>2. ~enabled => wish' = Automatic /\ ~expiring'
    BY <1>2, CommandSteps
  <2>3. job'[Switch] = job[Switch]
    BY <1>0, <1>2, <2>1, CommandSteps, ApplyJobs
  <2> QED
    BY <2>1, <2>2, <2>3 DEF OffInv, NoModeWhileOff
<1>3. ASSUME NEW a \in Tasks, Authorized(a)
      PROVE  OffInv'
  <2>1. PICK j : Doing(a, j) /\ j.at # "stopping"
    <3>1. job[a] \in Jobs
      BY <1>0
    <3>2. [job[a] EXCEPT !.at = "word"].at # "stopping" /\ [job[a] EXCEPT !.at = "setpoint"].at # "stopping"
      BY <3>1 DEF Jobs
    <3> QED
      BY <1>3, <3>2 DEF Authorized
  <2> QED
    BY <1>3, <1>j, <2>1 DEF Authorized, wishes
<1>4. ASSUME NEW a \in Tasks, Denied(a)
      PROVE  OffInv'
  BY <1>4, <1>i, <1>j DEF Denied, wishes
<1>5. CASE Answered
  <2>1. PICK j : Doing(Head(link), j) /\ j.at # "stopping"
    <3>1. job[Head(link)] \in Jobs
      BY <1>0, <1>5, <1>l DEF Answered
    <3>2. [job[Head(link)] EXCEPT !.at = "word"].at # "stopping"
      BY <3>1 DEF Jobs
    <3> QED
      BY <1>5, <1>i, <3>2 DEF Answered
  <2> QED
    BY <1>5, <1>j, <1>l, <2>1 DEF Answered, wishes
<1>6. CASE Failed
  BY <1>6, <1>i, <1>j, <1>l DEF Failed, wishes
<1>7. CASE SwitchSaver
  <2> DEFINE saver(at) == [at |-> at, goal |-> None, register |-> "default", value |-> None,
                           word |-> Method(commanded)]
  <2>1. PICK j : Doing(Switch, j) /\ j.at # "stopping"
    <3>1. saver("authority").at # "stopping" /\ saver("word").at # "stopping"
      OBVIOUS
    <3>2. Doing(Switch, saver("authority")) \/ Doing(Switch, saver("word"))
      BY <1>7 DEF SwitchSaver
    <3> QED
      BY <3>1, <3>2
  <2> QED
    BY <1>0, <1>7, <1>i, <1>j, <2>1 DEF SwitchSaver, MayBegin, wishes
<1>8. CASE SwitchOn
  BY <1>8, <1>i DEF SwitchOn, MayBegin, OffInv, NoModeWhileOff
<1>9. CASE SwitchOff
  BY <1>0, <1>9 DEF SwitchOff, Doing, Idle, OffInv, NoModeWhileOff
<1>10. CASE StartOver
  BY <1>0, <1>10 DEF StartOver, Doing, Idle, OffInv, NoModeWhileOff
<1>11. CASE Restart
  BY <1>0, <1>11 DEF Restart, Idle, OffInv, NoModeWhileOff
<1>12. CASE BeginTest \/ EndTest \/ Disconnect \/ Reconnect \/ Lapse \/ Beat \/ Forget \/ Age
  BY <1>12, <1>s DEF BeginTest, EndTest, Disconnect, Reconnect, Lapse, Beat, Forget, Age, wishes
<1>13. CASE UNCHANGED vars
  BY <1>13, <1>s DEF vars, wishes
<1> QED
  BY <1>1, <1>2, <1>3, <1>4, <1>5, <1>6, <1>7, <1>8, <1>9, <1>10, <1>11, <1>12, <1>13 DEF Next

(* Once Modbus Control is off no mode is selected any more, whatever       *)
(* commands and polls ran while it was being switched off: the switch may  *)
(* be in the middle of stopping the heartbeat (then the mode still is      *)
(* selected), and a poll or a command must not put it back afterwards.     *)
THEOREM OffMeansNoMode == Spec => []NoModeWhileOff
<1>1. Init => OffInv
  BY DEF Init, OffInv, NoModeWhileOff, Idle, Tasks
<1>2. OffInv => NoModeWhileOff
  BY DEF OffInv
<1> QED
  BY <1>1, <1>2, BaseAlways, NextOff, PTL DEF Spec

-----------------------------------------------------------------------------
(* Authority.                                                              *)

(* A handler that does not lengthen the link writes nothing.               *)
LEMMA SetpointNext ==
    ASSUME BaseInv, [Next]_vars, Writes, job'[link'[Len(link')]].at = "setpoint"
    PROVE  lease'
<1>0. job \in [Tasks -> Jobs] /\ link \in Seq(Tasks) /\ Len(link) \in Nat
  BY TypeParts DEF BaseInv
<1>1. link' # link
  BY <1>0 DEF Writes
<1>2. ASSUME NEW a \in Tasks, link' = Append(link, a)
      PROVE  link'[Len(link')] = a
  BY <1>0, <1>2
<1>3. ASSUME NEW a \in Tasks, job'[a].at \in {"idle", "authority", "word"},
             link' = link \/ link' = Append(link, a)
      PROVE  FALSE
  BY <1>1, <1>2, <1>3
<1>t. Poll \in Tasks /\ Switch \in Tasks /\ Users \subseteq Tasks
  BY DEF Tasks
<1>a. CASE PollApplies
  <2>1. job[Poll] = Idle
    BY <1>a DEF PollApplies, MayBegin
  <2> QED
    BY <1>3, <1>a, <1>t, <2>1, PollSteps, ApplyJobs
<1>b. ASSUME NEW u \in Users, UserCommands(u)
      PROVE  FALSE
  <2>1. job[u] = Idle
    BY <1>b DEF UserCommands, MayBegin
  <2> QED
    BY <1>1, <1>3, <1>b, <1>t, <2>1, CommandSteps, ApplyJobs
<1>c. ASSUME NEW a \in Tasks, Authorized(a) \/ Denied(a)
      PROVE  lease'
  BY <1>1, <1>c DEF Authorized, Denied
<1>d. CASE Answered \/ Failed
  <2>1. /\ link # <<>> /\ Head(link) \in Tasks
        /\ Len(Tail(link)) = Len(link) - 1
        /\ Len(Append(Tail(link), Head(link))) = Len(link)
    BY <1>0, <1>d DEF Answered, Failed
  <2>2. Len(link') <= Len(link)
    BY <1>0, <1>d, <2>1 DEF Answered, Failed
  <2> QED
    BY <1>0, <2>1, <2>2 DEF Writes
<1>e. CASE SwitchSaver
  <2> DEFINE saver(at) == [at |-> at, goal |-> None, register |-> "default", value |-> None,
                           word |-> Method(commanded)]
  <2>1. Doing(Switch, saver("word")) /\ link' = Append(link, Switch)
    BY <1>1, <1>e DEF SwitchSaver
  <2>2. job'[Switch].at = "word"
    BY <1>0, <1>t, <2>1 DEF Doing
  <2> QED
    BY <1>3, <1>t, <2>1, <2>2
<1>f. CASE Restart
  BY <1>0, <1>f DEF Restart, Writes
<1>g. CASE SwitchOn \/ SwitchOff \/ StartOver \/ BeginTest \/ EndTest \/ Disconnect \/ Reconnect
           \/ Lapse \/ Beat \/ Forget \/ Age
  BY <1>1, <1>g DEF SwitchOn, SwitchOff, StartOver, BeginTest, EndTest, Disconnect, Reconnect,
                    Lapse, Beat, Forget, Age
<1>h. CASE UNCHANGED vars
  BY <1>1, <1>h DEF vars
<1> QED
  BY <1>a, <1>b, <1>c, <1>d, <1>e, <1>f, <1>g, <1>h DEF Next

(* However commands, polls and switches overlap, a setpoint is sent only   *)
(* by a task the heartbeat has just given the authority: no other handler  *)
(* of the loop puts one on the link.                                       *)
THEOREM SetpointsFollowTheAuthority == Spec => SetpointsNeedAuthority
<1>1. BaseInv /\ [Next]_vars
        => [Writes /\ job'[link'[Len(link')]].at = "setpoint" => lease']_vars
  BY SetpointNext
<1> QED
  BY <1>1, BaseAlways, PTL DEF Spec, SetpointsNeedAuthority

-----------------------------------------------------------------------------
(* Calm: no task overlaps another, no write fails, no lapse goes unseen.   *)
(* While nothing is stale, what is commanded is what the inverter does; a  *)
(* send keeps the method of the old command until its word goes out, and   *)
(* at the word the setpoint it needs is in place.                          *)
CalmJob(j) ==
    /\ j.goal = None => j.at \notin Sending
    /\ j.at = "stopping" => ~enabled
    /\ j.at = "authority" /\ ~stale => lease /\ Follows(commanded)
    /\ j.at \in OnTheLink /\ j.register # "default" => lease
    /\ j.at \in {"authority", "setpoint"} /\ ~stale => device.word = Method(commanded)
    /\ j.at = "word" /\ CommandsPower(j.goal) => device[j.register] = j.value

AllIdle == \A a \in Tasks : job[a] = Idle

Calm ==
    /\ \A a, b \in Tasks : job[a] # Idle /\ job[b] # Idle => a = b
    /\ \A a \in Tasks : CalmJob(job[a])
    /\ AllIdle /\ enabled /\ ~stale /\ lease => Follows(commanded)

CalmInv == trouble = {} => Calm

(* It comes to rest ...                                                    *)
LEMMA CalmAtRest ==
    ASSUME \A a \in Tasks : job'[a] = Idle,
           enabled' /\ ~stale' /\ lease' => Follows(commanded)'
    PROVE  Calm'
BY DEF Calm, CalmJob, AllIdle, Idle, Sending, OnTheLink

(* ... or one task is in the middle of something.                          *)
LEMMA CalmAtWork ==
    ASSUME NEW a \in Tasks, \A b \in Tasks : b # a => job'[b] = Idle,
           job'[a] # Idle, CalmJob(job[a])'
    PROVE  Calm'
<1>1. \A b \in Tasks : b # a => CalmJob(job[b])'
  BY DEF CalmJob, Idle, Sending, OnTheLink
<1> QED
  BY <1>1 DEF Calm, AllIdle

LEMMA CalmApply ==
    ASSUME BaseInv, Calm, NEW a \in Tasks, AllIdle, NEW w \in Features,
           NEW o \in Features \cup {None}, NEW force, Apply(a, w, o, force),
           UNCHANGED <<enabled, outside>>
    PROVE  Calm'
<1>0. /\ job \in [Tasks -> Jobs] /\ TypeOK /\ job[a] = Idle
      /\ enabled' = enabled /\ lease' = lease /\ device' = device
  BY TypeParts DEF BaseInv, AllIdle, outside
<1>1. CASE Waits
  BY <1>0, <1>1, CalmAtRest DEF Waits, Stays, told, AllIdle, Calm, Follows
<1>2. CASE Agrees(Desired(w, o))
  BY <1>0, <1>2, CalmAtRest DEF Agrees, Stays, AllIdle, Calm, Follows
<1>3. CASE Sends(a, Desired(w, o))
  <2> DEFINE c == Desired(w, o)
  <2>1. c \in Features /\ c # None
    BY ApplySteps, CommandsAreDistinct
  <2>2. \A b \in Tasks : b # a => job'[b] = Idle
    BY <1>0, ApplyJobs DEF AllIdle
  <2>3. commanded' = commanded /\ (~stale' => ~stale /\ (enabled => lease))
    BY <1>0, <1>3 DEF Sends, TypeOK
  <2>4. CASE Changes(a, Idle)
    <3>1. \A b \in Tasks : job'[b] = Idle
      BY <1>0, <2>2, <2>4 DEF Changes, Doing
    <3> QED
      BY <1>0, <2>3, <3>1, CalmAtRest DEF Calm, Follows
  <2>5. CASE enabled /\ SendRegister(c) # "default" /\ Changes(a, SendJob(c, "authority"))
    <3>1. job'[a] = SendJob(c, "authority")
      BY <1>0, <2>5 DEF Changes, Doing
    <3>2. ~stale' => lease' /\ Follows(commanded)' /\ device'.word = Method(commanded')
      BY <1>0, <2>3, <2>5 DEF Calm, Follows
    <3>3. CalmJob(job[a])'
      BY <2>1, <3>1, <3>2 DEF CalmJob, SendJob, Sending, OnTheLink, Method
    <3> QED
      BY <2>2, <3>1, <3>3, CalmAtWork DEF SendJob, Idle
  <2>6. CASE SendRegister(c) = "default" /\ Joins(a, SendJob(c, "word"))
    <3>1. job'[a] = SendJob(c, "word")
      BY <1>0, <2>6 DEF Joins, Doing
    <3>2. ~CommandsPower(c)
      BY <2>1, <2>6, MethodTypes DEF SendRegister
    <3>3. CalmJob(job[a])'
      BY <2>1, <2>6, <3>1, <3>2 DEF CalmJob, SendJob, Sending, OnTheLink, CommandsPower
    <3> QED
      BY <2>2, <3>1, <3>3, CalmAtWork DEF SendJob, Idle
  <2>7. StartSend(a, c)
    BY <1>3 DEF Sends
  <2> QED
    BY <1>0, <2>1, <2>4, <2>5, <2>6, <2>7, StartSendSteps
<1> QED
  BY <1>1, <1>2, <1>3, ApplySteps

(* An answer: the word is still to come, or the command is delivered.      *)
LEMMA CalmAnswered == ASSUME BaseInv, Calm, Answered PROVE Calm'
<1>a. PICK a \in Tasks : a = Head(link)
  BY HeadIsATask DEF Answered
<1>0. /\ TypeOK /\ Values /\ job \in [Tasks -> Jobs]
      /\ a \in Tasks /\ job[a].at \in OnTheLink /\ job[a] \in Jobs /\ Sound(job[a])
  BY <1>a, TypeParts, HeadIsATask DEF BaseInv, JobsAreSound, Answered
<1>1. job[a] # Idle /\ \A b \in Tasks : b # a => job[b] = Idle
  BY <1>0 DEF Calm, Idle, OnTheLink
<1>2. CalmJob(job[a]) /\ job[a].goal \in Features
  BY <1>0 DEF Calm, CalmJob, Sending, Jobs
<1>3. /\ device' = Stored(job[a]) /\ lease' = lease /\ enabled' = enabled
      /\ device.word \in Methods
  BY <1>0, <1>a DEF Answered, Values, Device
<1>g. /\ job[a].goal # None /\ job[a].word = Method(job[a].goal)
      /\ CommandsPower(job[a].goal)
            => /\ job[a].register = Method(job[a].goal) /\ job[a].value = job[a].goal
               /\ job[a].register \in {"battery", "feed"}
  BY <1>0, <1>2, MethodTypes, CommandsAreDistinct DEF Sound
<1>d. /\ DOMAIN device = {"word", "battery", "feed"}
      /\ device = [x \in DOMAIN device |-> device[x]]
  BY <1>0 DEF Values, Device
<1>4. CASE job[a].at = "setpoint" /\ (job[a].word # Method(commanded) \/ stale)
  <2> DEFINE j == [job[a] EXCEPT !.at = "word"]
  <2>1. job'[a] = j
    BY <1>0, <1>4, <1>a DEF Answered, Doing
  <2>2. /\ j.at = "word" /\ j.goal = job[a].goal /\ j.register = job[a].register
        /\ j.value = job[a].value
    BY <1>0 DEF Jobs
  <2>3. \A b \in Tasks : b # a => job'[b] = Idle
    BY <1>0, <1>1, <1>4, <1>a DEF Answered, Doing
  <2>4. job[a].register # "default" /\ lease'
    BY <1>0, <1>2, <1>3, <1>4, <1>g DEF Sound, CalmJob, OnTheLink
  <2>5. CommandsPower(job[a].goal) => device'[job[a].register] = job[a].value
    BY <1>3, <1>4, <1>g, <1>d DEF Stored
  <2>6. CalmJob(job[a])'
    BY <1>g, <2>1, <2>2, <2>4, <2>5 DEF CalmJob, Sending, OnTheLink, CommandsPower
  <2>7. job'[a] # Idle
    BY <2>1, <2>2 DEF Idle
  <2> QED
    BY <1>0, <2>3, <2>6, <2>7, CalmAtWork
<1>5. CASE ~(job[a].at = "setpoint" /\ (job[a].word # Method(commanded) \/ stale))
  <2>1. Doing(a, Idle) /\ Delivered(a)
    BY <1>5, <1>a DEF Answered
  <2>2. \A b \in Tasks : job'[b] = Idle
    BY <1>0, <1>1, <2>1 DEF Doing
  <2>3. commanded' = job[a].goal
    BY <1>g, <2>1 DEF Delivered, Commit
  <2>4. CASE job[a].at = "word"
    <3>1. device'.word = Method(job[a].goal)
      BY <1>3, <1>g, <1>d, <2>4 DEF Stored
    <3>2. CommandsPower(job[a].goal) => device'[Method(job[a].goal)] = job[a].goal
      BY <1>2, <1>3, <1>g, <1>d, <2>4 DEF Stored, CalmJob
    <3> QED
      BY <2>2, <2>3, <3>1, <3>2, CalmAtRest DEF Follows, Method, CommandsPower
  <2>5. CASE job[a].at = "setpoint" /\ job[a].word = Method(commanded) /\ ~stale
    <3>1. device.word = job[a].word
      BY <1>2, <2>5 DEF CalmJob
    <3>2. device'.word = Method(job[a].goal)
      <4>1. job[a].register \in {"default", "battery", "feed"}
        BY <1>0 DEF Jobs, Methods
      <4> QED
        BY <1>3, <1>g, <1>d, <2>5, <3>1, <4>1 DEF Stored
    <3>3. CommandsPower(job[a].goal) => device'[Method(job[a].goal)] = job[a].goal
      BY <1>3, <1>g, <1>d, <2>5 DEF Stored
    <3> QED
      BY <2>2, <2>3, <3>2, <3>3, CalmAtRest DEF Follows, Method, CommandsPower
  <2> QED
    BY <1>0, <1>5, <2>4, <2>5 DEF OnTheLink
<1> QED
  BY <1>4, <1>5

LEMMA NextCalm == ASSUME BaseInv, trouble = {}, Calm, [Next]_vars PROVE Calm'
<1>0. /\ TypeOK /\ Values /\ job \in [Tasks -> Jobs] /\ JobsAreSound
      /\ Poll \in Tasks /\ Switch \in Tasks /\ Users \subseteq Tasks
  BY TypeParts DEF BaseInv, Tasks
<1>m. ASSUME NEW a, MayBegin(a)
      PROVE  AllIdle
  BY <1>m DEF MayBegin, AllIdle
<1>s. \A a \in Tasks : CalmJob(job[a]) /\ Sound(job[a]) /\ job[a] \in Jobs
  BY <1>0 DEF Calm, JobsAreSound
<1>f. ASSUME UNCHANGED <<enabled, stale, commanded, job, lease, device>>
      PROVE  Calm'
  BY <1>f DEF Calm, CalmJob, AllIdle, Follows, Method, CommandsPower
<1>1. CASE PollApplies
  <2>1. AllIdle /\ UNCHANGED <<enabled, outside>>
    BY <1>1, <1>m DEF PollApplies
  <2> QED
    BY <1>0, <1>1, <2>1, PollSteps, CalmApply
<1>2. ASSUME NEW u \in Users, UserCommands(u)
      PROVE  Calm'
  <2>1. AllIdle /\ UNCHANGED <<enabled, outside>>
    BY <1>2, <1>m DEF UserCommands
  <2>2. CASE UNCHANGED <<override, told, job, link>>
    BY <1>f, <2>1, <2>2 DEF told, outside
  <2> QED
    BY <1>0, <1>2, <2>1, <2>2, CommandSteps, CalmApply
<1>3. ASSUME NEW a \in Tasks, Authorized(a)
      PROVE  Calm'
  <2>1. /\ job[a].at = "authority" /\ lease'
        /\ UNCHANGED <<stale, commanded, device>>
    BY <1>3 DEF Authorized, told
  <2>2. job[a].goal # None /\ job[a].register # "default" /\ job[a] # Idle
    BY <1>s, <2>1 DEF CalmJob, Sound, Sending, Idle
  <2> DEFINE j == [job[a] EXCEPT !.at = "setpoint"]
  <2>3. job'[a] = j /\ j.at = "setpoint" /\ j.goal = job[a].goal /\ j.register = job[a].register
    BY <1>0, <1>3, <1>s, <2>2 DEF Authorized, Doing, Jobs
  <2>4. \A b \in Tasks : b # a => job'[b] = Idle
    BY <1>0, <1>3, <2>2 DEF Authorized, Doing, Calm
  <2>5. ~stale => device.word = Method(commanded)
    BY <1>s, <2>1 DEF CalmJob
  <2>6. CalmJob(job[a])'
    BY <2>1, <2>2, <2>3, <2>5 DEF CalmJob, Sending, OnTheLink, Method
  <2>7. job'[a] # Idle
    BY <2>3 DEF Idle
  <2> QED
    BY <2>4, <2>6, <2>7, CalmAtWork
<1>4. ASSUME NEW a \in Tasks, Denied(a)
      PROVE  Calm'
  <2>1. \A b \in Tasks : job'[b] = Idle
    BY <1>0, <1>4 DEF Denied, Doing, Calm, Idle
  <2>2. job[a].at = "authority" /\ UNCHANGED <<stale, commanded, lease, device>>
    BY <1>4 DEF Denied, told, outside
  <2>3. ~stale' => Follows(commanded)'
    BY <1>s, <2>2 DEF CalmJob, Follows, Method, CommandsPower
  <2> QED
    BY <2>1, <2>3, CalmAtRest
<1>5. CASE Answered
  BY <1>5, CalmAnswered
<1>6. CASE Failed \/ SwitchSaver
  BY <1>6 DEF Failed, SwitchSaver
<1>7. CASE SwitchOn
  BY <1>7, <1>m, CalmAtRest DEF SwitchOn, AllIdle
<1>8. CASE SwitchOff
  <2>1. /\ ~enabled' /\ job'[Switch] = [Idle EXCEPT !.at = "stopping"]
        /\ \A b \in Tasks : b # Switch => job'[b] = Idle
    BY <1>0, <1>8, <1>m DEF SwitchOff, Doing, AllIdle
  <2>2. job'[Switch].at = "stopping" /\ job'[Switch].goal = None
    BY <2>1 DEF Idle
  <2>3. CalmJob(job[Switch])'
    BY <2>1, <2>2 DEF CalmJob, Sending, OnTheLink
  <2> QED
    BY <1>0, <2>1, <2>2, <2>3, CalmAtWork DEF Idle
<1>9. CASE StartOver
  <2>1. ~enabled /\ enabled' = enabled
    BY <1>0, <1>9, <1>s DEF StartOver, CalmJob
  <2>2. \A b \in Tasks : job'[b] = Idle
    BY <1>0, <1>9 DEF StartOver, Doing, Calm, Idle
  <2> QED
    BY <2>1, <2>2, CalmAtRest
<1>10. CASE BeginTest
  BY <1>10, <1>f DEF BeginTest, told, outside
<1>11. CASE EndTest
  BY <1>11, CalmAtRest DEF EndTest
<1>12. CASE Restart
  BY <1>12, CalmAtRest DEF Restart
<1>13. CASE Disconnect
  BY <1>13, <1>f DEF Disconnect, told
<1>14. CASE Reconnect
  BY <1>14 DEF Reconnect, Calm, CalmJob, AllIdle, Follows, Method, CommandsPower
<1>15. CASE Lapse
  <2>1. /\ ~lease' /\ UNCHANGED <<enabled, stale, commanded, job, device>>
        /\ \A a \in Tasks : ~RidesOnABeat(job[a]) /\ job[a].at # "authority"
    BY <1>15 DEF Lapse, told
  <2>2. \A a \in Tasks : CalmJob(job[a])'
    BY <1>s, <2>1 DEF CalmJob, RidesOnABeat, Sending, OnTheLink, Method
  <2> QED
    BY <2>1, <2>2 DEF Calm, AllIdle
<1>16. CASE Beat
  BY <1>16 DEF Beat, told, Calm, CalmJob, AllIdle, Method
<1>17. CASE Forget
  <2>1. ~lease /\ UNCHANGED <<enabled, stale, commanded, job, lease>>
    BY <1>17 DEF Forget, told
  <2>2. ASSUME NEW a \in Tasks
        PROVE  CalmJob(job[a])'
    <3>1. ~(job[a].at \in {"authority", "setpoint"} /\ ~stale)
      BY <1>s, <2>1 DEF CalmJob, Sound, Sending, OnTheLink
    <3>2. ~(job[a].at = "word" /\ CommandsPower(job[a].goal))
      <4>1. CommandsPower(job[a].goal) => job[a].goal \in Features /\ job[a].goal # None
        BY CommandsAreDistinct DEF CommandsPower, Features
      <4> QED
        BY <1>s, <2>1, <4>1, MethodTypes DEF CalmJob, Sound, OnTheLink
    <3> QED
      BY <1>s, <2>1, <3>1, <3>2 DEF CalmJob, CommandsPower
  <2> QED
    BY <2>1, <2>2 DEF Calm, AllIdle
<1>18. CASE Age
  BY <1>18, <1>f DEF Age, outside
<1>19. CASE UNCHANGED vars
  BY <1>19, <1>f DEF vars, told, outside
<1> QED
  BY <1>1, <1>2, <1>3, <1>4, <1>5, <1>6, <1>7, <1>8, <1>9, <1>10, <1>11, <1>12, <1>13, <1>14,
     <1>15, <1>16, <1>17, <1>18, <1>19 DEF Next

LEMMA TroubleStays == ASSUME [Next]_vars PROVE trouble' = trouble
BY DEF Next, vars, PollApplies, UserCommands, Authorized, Denied, Answered, Failed, SwitchSaver,
       SwitchOn, SwitchOff, StartOver, BeginTest, EndTest, Restart, Disconnect, Reconnect, Lapse,
       Beat, Forget, Age

LEMMA InitCalm == Init => CalmInv
BY DEF Init, CalmInv, Calm, CalmJob, AllIdle, Idle, Sending, OnTheLink

(* In calm a loop that looks settled is one the inverter follows: what is  *)
(* commanded was delivered setpoint first and word last, nothing that has  *)
(* happened to it since has gone unmarked, and so the loop is right to     *)
(* send nothing - whatever reconnects, restarts, control tests, lapses and *)
(* switchings came between.                                                *)
THEOREM CalmLoopIsFollowed == Spec => []SettledIsFollowedInCalm
<1>1. BaseInv /\ CalmInv /\ [Next]_vars => CalmInv'
  BY TroubleStays, NextCalm DEF CalmInv
<1>2. CalmInv => SettledIsFollowedInCalm
  BY DEF CalmInv, Calm, AllIdle, SettledIsFollowedInCalm, SettledIsFollowed, Settled
<1> QED
  BY <1>1, <1>2, InitCalm, BaseAlways, PTL DEF Spec

-----------------------------------------------------------------------------
(* What has gone stale.                                                    *)
LEMMA OnlyTheWordNext ==
    ASSUME BaseInv, OffInv, [Next]_vars, stale, ~stale', enabled'
    PROVE  /\ link # <<>> /\ job[Head(link)].at = "word"
           /\ device'.word = job[Head(link)].word
<1>0. TypeOK /\ Values /\ Users \subseteq Tasks /\ Poll \in Tasks
  BY TypeParts DEF BaseInv, Tasks
<1>a. ASSUME NEW a \in Tasks, NEW w \in Features, NEW o \in Features \cup {None}, NEW force,
             Apply(a, w, o, force)
      PROVE  stale'
  BY <1>a, ApplySteps DEF Waits, Agrees, Sends, told
<1>1. ~PollApplies
  BY <1>0, <1>a, PollSteps
<1>2. \A u \in Users : ~UserCommands(u)
  BY <1>0, <1>a, CommandSteps DEF told
<1>3. CASE Answered
  <2>1. /\ link # <<>> /\ job[Head(link)].at \in OnTheLink
        /\ device' = Stored(job[Head(link)])
    BY <1>3, HeadIsATask DEF Answered
  <2>2. job[Head(link)].at = "word"
    BY <1>3, <2>1 DEF Answered, told, OnTheLink
  <2>3. device'.word = job[Head(link)].word
    BY <1>0, <2>1, <2>2 DEF Stored, Values, Device
  <2> QED
    BY <2>1, <2>2, <2>3
<1>4. ~StartOver
  BY DEF StartOver, OffInv
<1>5. \A a \in Tasks : ~Authorized(a) /\ ~Denied(a)
  BY DEF Authorized, Denied, told
<1>6. ~(Failed \/ SwitchSaver \/ SwitchOn \/ SwitchOff \/ BeginTest \/ EndTest)
  BY <1>0 DEF Failed, SwitchSaver, SwitchOn, SwitchOff, BeginTest, EndTest, told
<1>r. ~Restart
  <2> SUFFICES ASSUME Restart PROVE FALSE
    OBVIOUS
  <2>1. stale' = enabled /\ enabled' = enabled
    BY DEF Restart
  <2> QED
    BY <2>1
<1>7. ~(Disconnect \/ Reconnect \/ Lapse \/ Beat \/ Forget \/ Age)
  BY <1>0 DEF Disconnect, Reconnect, Lapse, Beat, Forget, Age, told
<1>8. vars' # vars
  BY DEF vars, told
<1> QED
  BY <1>1, <1>2, <1>3, <1>4, <1>5, <1>6, <1>r, <1>7, <1>8 DEF Next

(* While Modbus Control is on, only the control word itself takes the mark *)
(* off that the inverter may have lost what it was told: the write of a    *)
(* setpoint alone never does, whichever task answers for it.               *)
THEOREM StaleUntilTheWord == Spec => OnlyTheWordSettles
<1>1. Init => OffInv
  BY DEF Init, OffInv, NoModeWhileOff, Idle, Tasks
<1>2. BaseInv /\ OffInv /\ [Next]_vars
        => [stale /\ ~stale' /\ enabled' =>
               link # <<>> /\ job[Head(link)].at = "word" /\ device'.word = job[Head(link)].word]_vars
  BY OnlyTheWordNext
<1> QED
  BY <1>1, <1>2, BaseAlways, NextOff, PTL DEF Spec, OnlyTheWordSettles
=============================================================================
