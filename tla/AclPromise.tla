----------------------------- MODULE AclPromise -----------------------------
(***************************************************************************)
(* What the extension promises about the filters of each shoot, without    *)
(* the queue, the API calls, the retries and the failures of the           *)
(* controller.  A shoot's filters are deployed, rolled out and removed by  *)
(* jobs; a job either writes the complete filters of the rule it was given *)
(* or leaves everything as it is, removal happens on request only, and the *)
(* shoot is held (the Extension cannot go) from before the first filter    *)
(* until after the last one.  AclRefinement maps AclExtension to it.       *)
(***************************************************************************)

CONSTANTS
    Shoots,
    Configs,            \* provider configs
    None,
    Bundle(_, _)        \* Bundle(O, c): O are the complete filters of config c

VARIABLES
    asked,              \* [Shoots -> config the shoot asks for, or None]
    want,               \* [Shoots -> "kept" or "removed"]
    held,               \* [Shoots -> the Extension is kept from going]
    job,                \* [Shoots -> the job at work, or NoJob]
    served,             \* [Shoots -> the last job is reported as successful]
    phase, objects,     \* [Shoots -> what is to be on the seed]
    installed           \* [Shoots -> what is on the seed]

vars == <<asked, want, held, job, served, phase, objects, installed>>

NoJob == [kind |-> "none", config |-> None, outcome |-> "open"]

NewJob(kind, config) == [kind |-> kind, config |-> config, outcome |-> "open"]

Init ==
    /\ asked = [s \in Shoots |-> None]
    /\ want = [s \in Shoots |-> "kept"]
    /\ held = [s \in Shoots |-> FALSE]
    /\ job = [s \in Shoots |-> NoJob]
    /\ served = [s \in Shoots |-> FALSE]
    /\ phase = [s \in Shoots |-> "Absent"]
    /\ objects = [s \in Shoots |-> {}]
    /\ installed = [s \in Shoots |-> {}]

-----------------------------------------------------------------------------
(* Requests *)

\* Removal is asked for only of a shoot that is held, and not withdrawn.
Ask(s) ==
    /\ want[s] = "kept"
    /\ \E config \in Configs \cup {None}, w \in {"kept", "removed"} :
          /\ w = "removed" => held[s]
          /\ asked' = [asked EXCEPT ![s] = config]
          /\ want' = [want EXCEPT ![s] = w]
    /\ \E b \in BOOLEAN : served' = [served EXCEPT ![s] = b /\ @]
    /\ UNCHANGED <<held, job, phase, objects, installed>>

-----------------------------------------------------------------------------
(* Jobs *)

Begin(s) ==
    /\ job[s] = NoJob
    /\ \/ /\ want[s] = "kept" /\ asked[s] # None
          /\ held' = [held EXCEPT ![s] = TRUE]
          /\ job' = [job EXCEPT ![s] = NewJob("deploy", asked[s])]
       \/ /\ want[s] = "removed" /\ held[s]
          /\ job' = [job EXCEPT ![s] = NewJob("remove", asked[s])]
          /\ UNCHANGED held
    /\ served' = [served EXCEPT ![s] = FALSE]
    /\ UNCHANGED <<asked, want, phase, objects, installed>>

\* The job goes on, with this outcome, or it is cut short.
Proceed(s, outcome) ==
    job' \in {[job EXCEPT ![s].outcome = outcome], [job EXCEPT ![s] = NoJob]}

\* All filters of the config the job was given, and of nothing else.
Deploy(s) ==
    /\ job[s].kind = "deploy" /\ job[s].outcome = "open"
    /\ held[s] /\ phase[s] # "Deleting"
    /\ phase' = [phase EXCEPT ![s] = "Present"]
    /\ objects' = [objects EXCEPT ![s] = objects'[s]]
    /\ Bundle(objects'[s], job[s].config)
    /\ Proceed(s, "done")
    /\ UNCHANGED <<asked, want, held, served, installed>>

\* A hibernated shoot may be left as it is.
Excuse(s) ==
    /\ job[s].kind = "deploy" /\ job[s].outcome = "open"
    /\ job' = [job EXCEPT ![s].outcome = "excused"]
    /\ UNCHANGED <<asked, want, held, served, phase, objects, installed>>

Remove(s) ==
    /\ job[s].kind = "remove" /\ want[s] = "removed"
    /\ phase[s] = "Present"
    /\ phase' = [phase EXCEPT ![s] = "Deleting"]
    /\ Proceed(s, "open")
    /\ UNCHANGED <<asked, want, held, served, objects, installed>>

Removed(s) ==
    /\ job[s].kind = "remove"
    /\ phase[s] = "Absent"
    /\ job' = [job EXCEPT ![s].outcome = "done"]
    /\ UNCHANGED <<asked, want, held, served, phase, objects, installed>>

\* Success is reported only of a job that has done its work.
Report(s) ==
    /\ job[s].outcome # "open"
    /\ served' = [served EXCEPT ![s] = TRUE]
    /\ Proceed(s, job[s].outcome)
    /\ UNCHANGED <<asked, want, held, phase, objects, installed>>

\* Any job may be given up and begun again.
Abort(s) ==
    /\ job' = [job EXCEPT ![s] = NoJob]
    /\ UNCHANGED <<asked, want, held, served, phase, objects, installed>>

Crash ==
    /\ job' = [s \in Shoots |-> NoJob]
    /\ UNCHANGED <<asked, want, held, served, phase, objects, installed>>

\* The shoot is let go when nothing is left of it.
LetGo(s) ==
    /\ job[s].kind = "remove" /\ job[s].outcome = "done"
    /\ want[s] = "removed"
    /\ phase[s] = "Absent" /\ installed[s] = {}
    /\ held' = [held EXCEPT ![s] = FALSE]
    /\ want' = [want EXCEPT ![s] = "kept"]
    /\ job' = [job EXCEPT ![s] = NoJob]
    /\ \E config \in {asked[s], None} : asked' = [asked EXCEPT ![s] = config]
    /\ \E b \in BOOLEAN : served' = [served EXCEPT ![s] = b /\ @]
    /\ UNCHANGED <<phase, objects, installed>>

-----------------------------------------------------------------------------
(* The rollout: filters that are to be there come and stay, others go *)

RollOut(s) ==
    /\ phase[s] = "Present"
    /\ installed' = [installed EXCEPT ![s] = installed'[s]]
    /\ installed[s] \cap objects[s] \subseteq installed'[s]
    /\ installed'[s] \subseteq installed[s] \cup objects[s]
    /\ UNCHANGED <<asked, want, held, job, served, phase, objects>>

TearDown(s) ==
    /\ phase[s] = "Deleting"
    /\ \/ /\ installed[s] # {}
          /\ installed' = [installed EXCEPT ![s] = installed'[s]]
          /\ installed'[s] \subseteq installed[s]
          /\ UNCHANGED <<phase, objects>>
       \/ /\ installed[s] = {}
          /\ phase' = [phase EXCEPT ![s] = "Absent"]
          /\ objects' = [objects EXCEPT ![s] = {}]
          /\ UNCHANGED installed
    /\ UNCHANGED <<asked, want, held, job, served>>

-----------------------------------------------------------------------------
Next ==
    \/ \E s \in Shoots :
          \/ Ask(s) \/ Begin(s) \/ Deploy(s) \/ Excuse(s) \/ Remove(s) \/ Removed(s)
          \/ Report(s) \/ Abort(s) \/ LetGo(s) \/ RollOut(s) \/ TearDown(s)
    \/ Crash

Spec == Init /\ [][Next]_vars
=============================================================================
