--------------------------- MODULE ImportIsolation ---------------------------
(***************************************************************************)
(* The executable import pipeline (packages/documents:                     *)
(* executablePipeline.ts): scans and conversions that run a tool in a      *)
(* rootless container, with scratch directories, time and output limits,   *)
(* cleanup, and a scanning daemon that is asked again when it is silent.   *)
(*                                                                         *)
(* Jobs overlap in one process, which may die and start again with the     *)
(* same run identity; directories and containers outlive it.  A container  *)
(* ends by itself (timeout --signal=KILL, --rm); the client that started   *)
(* it may be killed before that.  What tools and daemon answer is open.    *)
(***************************************************************************)
EXTENDS Integers, FiniteSets

CONSTANTS
  Jobs,         \* calls of scan and convert
  RoleOf,       \* job -> "classifier" (a scan) or "converter"
  MaxAttempts,  \* attempts of requestClamdWithRetry
  MaxCrashes    \* bound: deaths of the process

Roles == {"classifier", "converter"}

IsolationAssumption ==
  /\ RoleOf \in [Jobs -> Roles]
  /\ MaxAttempts \in Nat \ {0} /\ MaxCrashes \in Nat

VARIABLES
  proof,       \* role -> rootlessProof: none, asked, rootless or refused
  sequence,    \* role -> containers named
  jobs,        \* job -> its step and what it holds
  containers,  \* containers that run: [name, job, life]
  directories, \* directories on disk: [kind, job, life]
  life         \* deaths of the process

vars == <<proof, sequence, jobs, containers, directories, life>>

Unbegun == [step |-> "unbegun"]
Outcomes == {"clean", "malicious", "unavailable", "mismatch", "text", "blocked"}

Init ==
  /\ proof = [r \in Roles |-> "none"]
  /\ sequence = [r \in Roles |-> 0]
  /\ jobs = [j \in Jobs |-> Unbegun]
  /\ containers = {} /\ directories = {} /\ life = 0

Role(j) == RoleOf[j]
Scan(j) == Role(j) = "classifier"
At(j, step) == jobs[j].step = step
Go(j, fields) == jobs' = [jobs EXCEPT ![j] = fields]

Directory(kind, j) == [kind |-> kind, job |-> j, life |-> life]
Frame == UNCHANGED <<proof, sequence, containers, directories, life>>

(* What is thrown past the executor: a scan takes an error of its own kind *)
(* for blocked and any other for an unavailable scanner, a conversion both *)
(* for blocked.                                                            *)
Thrown(j, own) == IF Scan(j) /\ ~own THEN "unavailable" ELSE "blocked"

(* On the way out: remove what the call created, then answer.              *)
Close(outcome) == [step |-> "close", outcome |-> outcome]

---------------------------------------------------------------------------
(* The call and the proof that the runtime is rootless.                    *)

Start(j) ==
  /\ At(j, "unbegun")
  /\ directories' = directories \cup {Directory("scratch", j)}
  /\ \/ Go(j, [step |-> "prove"])
     \/ Go(j, Close(Thrown(j, FALSE)))        \* writeFile fails
  /\ UNCHANGED <<proof, sequence, containers, life>>

AskRootless(j) ==
  /\ At(j, "prove") /\ proof[Role(j)] = "none"
  /\ proof' = [proof EXCEPT ![Role(j)] = "asked"]
  /\ UNCHANGED <<sequence, jobs, containers, directories, life>>

(* One answer serves every run of the executor; a refusal too.             *)
AnswerRootless(r, answer) ==
  /\ proof[r] = "asked"
  /\ proof' = [proof EXCEPT ![r] = answer]
  /\ UNCHANGED <<sequence, jobs, containers, directories, life>>

Proven(j) ==
  /\ At(j, "prove") /\ proof[Role(j)] \in {"rootless", "refused"}
  /\ IF proof[Role(j)] = "rootless" THEN Go(j, [step |-> "stage"])
     ELSE Go(j, Close(Thrown(j, TRUE)))
  /\ Frame

---------------------------------------------------------------------------
(* The private copy of the input.                                          *)

(* stageRootlessInput removes what it began when it fails.                 *)
Stage(j) ==
  /\ At(j, "stage")
  /\ \/ /\ Go(j, [step |-> "run"])
        /\ directories' = directories \cup {Directory("staged", j)}
     \/ /\ \E own \in BOOLEAN : Go(j, Close(Thrown(j, own)))
        /\ UNCHANGED directories
  /\ UNCHANGED <<proof, sequence, containers, life>>

MountFails(j) ==
  /\ At(j, "run")
  /\ \E own \in BOOLEAN : Go(j, [step |-> "unstage", result |-> Thrown(j, own)])
  /\ Frame

---------------------------------------------------------------------------
(* The container.                                                          *)

(* Fault: the name has no role.                                            *)
NameWithoutRole(r, n) == n

Name(r, n) == <<r, n>>

Named(name) == {c \in containers : c.name = name}

(* podman run --name: refused when a container has that name.              *)
Run(j) ==
  /\ At(j, "run")
  /\ sequence' = [sequence EXCEPT ![Role(j)] = @ + 1]
  /\ LET name == Name(Role(j), sequence'[Role(j)]) IN
       IF Named(name) = {}
       THEN /\ containers' = containers \cup {[name |-> name, job |-> j, life |-> life]}
            /\ Go(j, [step |-> "running", name |-> name])
       ELSE /\ UNCHANGED containers
            /\ Go(j, [step |-> "remove", name |-> name, result |-> "failed"])
  /\ UNCHANGED <<proof, directories, life>>

(* The tool ends, or timeout kills it; --rm removes the container.         *)
ContainerEnds(c) ==
  /\ containers' = containers \ {c}
  /\ IF c.life = life /\ At(c.job, "running")
     THEN \E result \in {"output", "failed", "timed_out"} :
            Go(c.job, [step |-> "remove", name |-> c.name, result |-> result])
     ELSE UNCHANGED jobs
  /\ UNCHANGED <<proof, sequence, directories, life>>

(* runBoundedProcess kills the client for its time or its output; the      *)
(* container runs on.                                                      *)
KillClient(j) ==
  /\ At(j, "running")
  /\ \E result \in {"timed_out", "exceeded"} :
       Go(j, [step |-> "remove", name |-> jobs[j].name, result |-> result])
  /\ Frame

(* podman rm --force --ignore: whatever has the name; without a proof the  *)
(* result is lost.                                                         *)
Remove(j) ==
  /\ At(j, "remove")
  /\ \/ /\ containers' = containers \ Named(jobs[j].name)
        /\ Go(j, [step |-> "unstage", result |-> jobs[j].result])
     \/ /\ UNCHANGED containers
        /\ Go(j, [step |-> "unstage", result |-> "blocked"])
  /\ UNCHANGED <<proof, sequence, directories, life>>

(* What the call makes of the run: a classification goes on to the daemon, *)
(* a document that passes the checks is the text.                          *)
AfterRun(j, result) ==
  IF result = "output"
  THEN IF Scan(j) THEN {Close("mismatch"), [step |-> "version", attempt |-> 1]}
       ELSE {Close("text"), Close("blocked")}
  ELSE IF Scan(j) /\ result # "blocked" THEN {Close("unavailable")}
       ELSE {Close("blocked")}

Unstage(j) ==
  /\ At(j, "unstage")
  /\ directories' = directories \ {Directory("staged", j)}
  /\ \E next \in AfterRun(j, jobs[j].result) : Go(j, next)
  /\ UNCHANGED <<proof, sequence, containers, life>>

---------------------------------------------------------------------------
(* The daemon: its version, then its verdict, three attempts each.         *)

(* Fault: a silent daemon is asked without end.                            *)
AskedAgainForever(j) == [jobs[j] EXCEPT !.attempt = (@ % MaxAttempts) + 1]

AskedAgain(j) ==
  IF jobs[j].attempt = MaxAttempts THEN Close("unavailable")
  ELSE [jobs[j] EXCEPT !.attempt = @ + 1]

(* No answer: refused, reset, too long or out of time.                     *)
Silent(j) ==
  /\ jobs[j].step \in {"version", "stream"}
  /\ Go(j, AskedAgain(j))
  /\ Frame

(* Any other answer, or bytes too many for the daemon, end the scan.       *)
AnswerVersion(j) ==
  /\ At(j, "version")
  /\ \/ Go(j, [step |-> "stream", attempt |-> 1])
     \/ Go(j, Close("unavailable"))
  /\ Frame

Verdict(answer) ==
  CASE answer = "ok" -> "clean"
    [] answer = "found" -> "malicious"
    [] answer = "other" -> "unavailable"

AnswerStream(j, answer) ==
  /\ At(j, "stream")
  /\ Go(j, [step |-> "close", outcome |-> Verdict(answer), answer |-> answer])
  /\ Frame

Finish(j) ==
  /\ At(j, "close")
  /\ directories' = directories \ {Directory("scratch", j)}
  /\ jobs' = [jobs EXCEPT ![j].step = "done"]
  /\ UNCHANGED <<proof, sequence, containers, life>>

---------------------------------------------------------------------------
(* The process dies: calls and proofs are gone, and it starts again.       *)
Crash ==
  /\ life < MaxCrashes /\ life' = life + 1
  /\ proof' = [r \in Roles |-> "none"]
  /\ sequence' = [r \in Roles |-> 0]
  /\ jobs' = [j \in Jobs |-> Unbegun]
  /\ UNCHANGED <<containers, directories>>

Answers == {"ok", "found", "other"}

Step(j) ==
  \/ AskRootless(j) \/ Proven(j) \/ Stage(j) \/ MountFails(j) \/ Run(j)
  \/ KillClient(j) \/ Remove(j) \/ Unstage(j) \/ Finish(j)
  \/ Silent(j) \/ AnswerVersion(j) \/ \E a \in Answers : AnswerStream(j, a)

Next ==
  \/ Crash
  \/ \E j \in Jobs : Start(j) \/ Step(j)
  \/ \E r \in Roles, answer \in {"rootless", "refused"} : AnswerRootless(r, answer)
  \/ \E c \in containers : ContainerEnds(c)

Spec == Init /\ [][Next]_vars

---------------------------------------------------------------------------
(* Two containers never have one name, and a job under way knows its own.  *)
TypeOK ==
  /\ \A c, d \in containers : c.name = d.name => c = d
  /\ \A j \in Jobs : "outcome" \in DOMAIN jobs[j] => jobs[j].outcome \in Outcomes
  /\ \A d \in directories : d.kind \in {"scratch", "staged"} /\ d.life <= life
  /\ life \in 0..MaxCrashes

(* A call that has answered left no directory, whichever step failed, and  *)
(* a container of its only when it answered blocked (removeContainer:      *)
(* "could not prove container cleanup").                                   *)
AnsweredLeavesNothing ==
  \A j \in Jobs : At(j, "done") =>
    /\ \A d \in directories : d.job = j => d.life < life
    /\ jobs[j].outcome = "blocked" \/ \A c \in containers : c.job = j => c.life < life

(* What a call removes is its own container or one of a dead process, also *)
(* when a name is taken by a container that outlived its process.          *)
RemovesItsOwn ==
  \A j \in Jobs : At(j, "remove") /\ jobs'[j].step = "unstage" =>
    \A c \in containers \ containers' : c.job = j \/ c.life < life

(* No container starts before this process had the runtime's word that it  *)
(* is rootless, with one answer shared by overlapping calls.               *)
StartsRootless ==
  \A c \in containers' \ containers : proof[RoleOf[c.job]] = "rootless"

(* Only the daemon's own words make a verdict: silence, a spoofed answer   *)
(* and a failed step are an unavailable scanner ("fails closed on spoofed  *)
(* or oversized clamd responses", executablePipeline.test.ts).             *)
VerdictsAreTheDaemons ==
  \A j \in Jobs : jobs[j].step \in {"close", "done"} =>
    /\ jobs[j].outcome = "clean" => jobs[j].answer = "ok"
    /\ jobs[j].outcome = "malicious" => jobs[j].answer = "found"

=============================================================================
