------------------------------- MODULE Runner -------------------------------
(***************************************************************************)
(* The demo's runner (demo/runner.py): it deploys a rollup or picks up the *)
(* last one, runs the L2 node and the operator, and files what the         *)
(* operator reports, one line of its log per preconfirmation and per post, *)
(* into a file per block and into a summary for the site.  The runner, the *)
(* node and the operator may stop at any time.                             *)
(*                                                                         *)
(* The follower and spamoor, which the runner restarts on their own, and   *)
(* what the steps of the story send are left out.                          *)
(***************************************************************************)
EXTENDS Integers, Sequences, SequencesExt, FiniteSets

CONSTANTS
    MaxDeploys,   \* bound: how often the runner deploys a rollup
    MaxReports,   \* bound: how many lines the operator writes for a rollup
    MaxDrops,     \* bound: how often the node drops what it preconfirmed
    MaxHalts,     \* bound: how often the runner or a process stops, the log is
                  \* emptied, or the devnet replaced
    MaxStep       \* bound: the story's last step

ASSUME RunnerAssumption == {MaxDeploys, MaxReports, MaxDrops, MaxHalts, MaxStep} \subseteq Nat

VARIABLES
    phase,        \* what the runner is doing
    new,          \* whether it is to deploy a rollup, with --new
    episode,      \* the Episode's session, in memory
    storyStep,    \* the story's next step
    session,      \* session.json
    proverOf,     \* prover.json: the rollup whose prover key it holds
    stateOf,      \* l2_state.json: the rollup whose genesis it starts from
    files,        \* blocks/<number>.json
    filer,        \* the thread that files the log's lines
    relays,       \* the sessions of ended episodes whose relaying thread goes on
    nodeUp, operatorUp,
    log,          \* operator.jsonl
    rollupsOnL1,  \* the rollups L1 has
    built,        \* the versions of the blocks the node has
    onRollup,     \* how many of them the rollup has
    deploys, drops, halts,
    told,         \* history: the lines the operator wrote for this rollup
    emptied,      \* history: how often logrotate emptied the log
    kept,         \* history: the session as the last episode that ran saved it
    mishaps       \* history: what befell this rollup that the code does not handle

runnerVars == <<phase, new, episode, storyStep, session, proverOf, stateOf, files,
                filer, relays, nodeUp, operatorUp, log, rollupsOnL1, built, onRollup,
                deploys, drops, halts, told, emptied, kept, mishaps>>

Numbers == 1..MaxReports
NoRollup == 0
NotSaved == -1

MaxLines == MaxReports * MaxDeploys

\* An offset into the log is a number of lines, and (history) the log it is
\* `of`: how often the log had been emptied.  It keeps its value when logrotate
\* empties the log, and may then be anywhere in the new one.
EmptySession ==
    [rollup |-> NoRollup, step |-> -1, filed |-> NotSaved, of |-> 0,
     preconfirmed |-> 0, posted |-> 0, waiting |-> <<>>]

\* What befalls a rollup: a restart without --new in the middle of a deployment
\* with it; reports before its session said where filing stopped; unfiled
\* lines that logrotate emptied; lines of the new log before the old one's
\* offset; an ended episode's thread that saved its session over a later one.
Mishaps == {"--new forgotten", "not saved", "emptied", "passed over", "saved over"}
Befalls(what, if) == mishaps' = mishaps \cup (IF if THEN {what} ELSE {})

\* No version of a block is 0.
NoFiles == [n \in Numbers |-> [version |-> 0, broken |-> <<>>]]

NoLine == [type |-> "none", number |-> 0, version |-> 0]
FilerOff == [on |-> FALSE, place |-> 0, of |-> 0, held |-> FALSE, line |-> NoLine]

-----------------------------------------------------------------------------
(* Filing                                                                  *)

\* Merging a line into its block's file: a preconfirmation it replaces stays
\* under "broken".
MergeLine(file, line) ==
    [version |-> line.version,
     broken |-> IF line.type = "preconfirm" /\ file.version \notin {0, line.version}
                THEN Append(file.broken, file.version)
                ELSE file.broken]

\* Of the blocks that wait, those from number `from` to `to`.  (A fold, of which
\* TLAPS can prove more than of SelectSeq.)
WaitingFrom(waiting, from, to) ==
    FoldLeft(LAMBDA r, w : IF w.number \in from..to THEN Append(r, w) ELSE r, <<>>, waiting)

\* The session's summary after a line.
Summarize(s, line) ==
    IF line.type = "preconfirm"
    THEN [s EXCEPT !.preconfirmed = line.number,
                   !.waiting = Append(WaitingFrom(s.waiting, 1, line.number - 1),
                                      [number |-> line.number, version |-> line.version])]
    ELSE LET posted == IF line.number > s.posted THEN line.number ELSE s.posted
         IN [s EXCEPT !.posted = posted,
                      !.waiting = WaitingFrom(s.waiting, posted + 1, MaxReports)]

\* Mutant: filing starts at the end of the log.
AlwaysAtTheEnd(s) == Len(log)

\* Where filing starts: where it stopped, or at the end of the log, or at the
\* start of one that is shorter than that.
StartOf(s) ==
    IF s.filed = NotSaved THEN Len(log) ELSE IF s.filed <= Len(log) THEN s.filed ELSE 0
LogOf(s) == IF s.filed # NotSaved /\ s.filed <= Len(log) THEN s.of ELSE emptied

\* The block's file is written before the session says that the line is filed.
\* From an offset of an earlier log the filer goes on in the middle of this one.
FileLine ==
    /\ filer.on /\ ~filer.held /\ nodeUp
    /\ filer.place < Len(log)
    /\ LET line == log[filer.place + 1]
       IN /\ files' = [files EXCEPT ![line.number] = MergeLine(@, line)]
          /\ filer' = [filer EXCEPT !.held = TRUE, !.line = line]
    /\ Befalls("passed over", filer.of # emptied)
    /\ UNCHANGED <<new, phase, episode, storyStep, session, proverOf, stateOf, relays, nodeUp, operatorUp,
                   log, rollupsOnL1, built, onRollup, deploys, drops, halts, told, emptied, kept>>

SaveFiled ==
    /\ filer.held
    /\ episode' = [Summarize(episode, filer.line) EXCEPT !.filed = filer.place + 1, !.of = filer.of]
    /\ session' = episode' /\ kept' = episode'
    /\ filer' = [filer EXCEPT !.place = @ + 1, !.held = FALSE, !.line = NoLine]
    /\ UNCHANGED <<new, phase, storyStep, proverOf, stateOf, files, relays, nodeUp, operatorUp,
                   log, rollupsOnL1, built, onRollup, deploys, drops, halts, told, emptied, mishaps>>

\* An offset past the end of the log is one of a log that was emptied.
NoticeRotation ==
    /\ filer.on /\ ~filer.held /\ nodeUp
    /\ filer.place > Len(log)
    /\ filer' = [filer EXCEPT !.place = 0, !.of = emptied]
    /\ UNCHANGED <<new, phase, episode, storyStep, session, proverOf, stateOf, files, relays, nodeUp, operatorUp,
                   log, rollupsOnL1, built, onRollup, deploys, drops, halts, told, emptied, kept, mishaps>>

\* The thread stops with the episode's node.
FilerStops ==
    /\ filer.on /\ ~filer.held /\ ~nodeUp
    /\ filer' = FilerOff
    /\ UNCHANGED <<new, phase, episode, storyStep, session, proverOf, stateOf, files, relays, nodeUp, operatorUp,
                   log, rollupsOnL1, built, onRollup, deploys, drops, halts, told, emptied, kept, mishaps>>

\* An offset of an earlier log may be inside a line of this one, which is no
\* JSON from there on: the thread dies.
FilerDies ==
    /\ filer.on /\ ~filer.held /\ nodeUp
    /\ filer.of # emptied /\ filer.place < Len(log)
    /\ filer' = FilerOff
    /\ Befalls("passed over", TRUE)
    /\ UNCHANGED <<new, phase, episode, storyStep, session, proverOf, stateOf, files, relays, nodeUp, operatorUp,
                   log, rollupsOnL1, built, onRollup, deploys, drops, halts, told, emptied, kept>>

-----------------------------------------------------------------------------
(* An episode                                                              *)

\* resume: only a session, a prover key and a state of one rollup, which L1
\* has, are picked up.
MayResume ==
    /\ session.rollup # NoRollup
    /\ proverOf = session.rollup
    /\ stateOf # NoRollup
    /\ session.rollup \in rollupsOnL1

\* The runner waits at least a step of the story between episodes, by when the
\* last one's filer has stopped.
Resume ==
    /\ phase = "idle" /\ ~filer.on
    /\ ~new /\ MayResume
    /\ phase' = "node"
    /\ episode' = session /\ kept' = session
    /\ storyStep' = session.step + 1
    /\ Befalls("saved over", session # kept)
    /\ UNCHANGED <<new, session, proverOf, stateOf, files, filer, relays, nodeUp, operatorUp,
                   log, rollupsOnL1, built, onRollup, deploys, drops, halts, told, emptied>>

\* deploy writes the genesis of a new rollup, deploys it, ...
WriteGenesis ==
    /\ phase = "idle" /\ ~filer.on
    /\ new \/ ~MayResume
    /\ deploys < MaxDeploys
    /\ deploys' = deploys + 1
    /\ stateOf' = deploys + 1
    /\ built' = <<>> /\ onRollup' = 0
    /\ phase' = "contracts"
    /\ UNCHANGED <<new, episode, storyStep, session, proverOf, files, filer, relays, nodeUp, operatorUp,
                   log, rollupsOnL1, drops, halts, told, emptied, kept, mishaps>>

DeployContracts ==
    /\ phase = "contracts"
    /\ rollupsOnL1' = rollupsOnL1 \cup {stateOf}
    /\ phase' = "prover"
    /\ UNCHANGED <<new, episode, storyStep, session, proverOf, stateOf, files, filer, relays, nodeUp,
                   operatorUp, log, built, onRollup, deploys, drops, halts, told, emptied, kept, mishaps>>

\* ... keeps its prover's key, ...
SaveProver ==
    /\ phase = "prover"
    /\ proverOf' = stateOf
    /\ phase' = "blocks"
    /\ UNCHANGED <<new, episode, storyStep, session, stateOf, files, filer, relays, nodeUp, operatorUp,
                   log, rollupsOnL1, built, onRollup, deploys, drops, halts, told, emptied, kept, mishaps>>

\* ... and removes the previous rollup's blocks before it records the new one.
ClearBlocks ==
    /\ phase = "blocks"
    /\ files' = NoFiles
    /\ told' = <<>> /\ mishaps' = {}
    /\ phase' = "session"
    /\ UNCHANGED <<new, episode, storyStep, session, proverOf, stateOf, filer, relays, nodeUp, operatorUp,
                   log, rollupsOnL1, built, onRollup, deploys, drops, halts, emptied, kept>>

SaveSession ==
    /\ phase = "session"
    /\ episode' = [EmptySession EXCEPT !.rollup = stateOf]
    /\ session' = episode' /\ kept' = episode'
    /\ storyStep' = 0
    /\ phase' = "node"
    /\ UNCHANGED <<new, proverOf, stateOf, files, filer, relays, nodeUp, operatorUp, log, rollupsOnL1,
                   built, onRollup, deploys, drops, halts, told, emptied, mishaps>>

StartNode ==
    /\ phase = "node"
    /\ nodeUp' = TRUE
    /\ phase' = "operator"
    /\ UNCHANGED <<new, episode, storyStep, session, proverOf, stateOf, files, filer, relays, operatorUp,
                   log, rollupsOnL1, built, onRollup, deploys, drops, halts, told, emptied, kept, mishaps>>

\* What the operator wrote before the session said where filing stopped is
\* passed over: filing starts at the end of the log.
StartOperator ==
    /\ phase = "operator"
    /\ filer' = [FilerOff EXCEPT !.on = TRUE, !.place = StartOf(episode), !.of = LogOf(episode)]
    /\ operatorUp' = TRUE
    /\ new' = FALSE
    /\ phase' = "step"
    /\ Befalls("not saved", episode.filed = NotSaved /\ told # <<>>)
    /\ UNCHANGED <<episode, storyStep, session, proverOf, stateOf, files, relays, nodeUp, log,
                   rollupsOnL1, built, onRollup, deploys, drops, halts, told, emptied, kept>>

\* A step of the story ends the episode if the node or the operator stopped.
\* The session keeps it if nothing in it failed, and the story goes on if
\* something did, which is an event that saves the session too.
Step(fails) ==
    /\ phase = "step"
    /\ nodeUp /\ operatorUp
    /\ storyStep <= MaxStep
    /\ episode' = IF fails THEN episode ELSE [episode EXCEPT !.step = storyStep]
    /\ session' = episode' /\ kept' = episode'
    /\ storyStep' = storyStep + 1
    /\ UNCHANGED <<new, phase, proverOf, stateOf, files, filer, relays, nodeUp, operatorUp, log,
                   rollupsOnL1, built, onRollup, deploys, drops, halts, told, emptied, mishaps>>

\* What was started is stopped, but not the thread that relays withdrawals,
\* which may be `claiming` one.  (The filer is done with the line it holds when
\* the runner goes on.)
EndEpisode(claiming) ==
    /\ phase = "step" /\ ~filer.held
    /\ ~nodeUp \/ ~operatorUp
    /\ phase' = "idle"
    /\ nodeUp' = FALSE /\ operatorUp' = FALSE
    /\ relays' = IF claiming THEN relays \cup {episode} ELSE relays
    /\ UNCHANGED <<new, episode, storyStep, session, proverOf, stateOf, files, filer, log, rollupsOnL1,
                   built, onRollup, deploys, drops, halts, told, emptied, kept, mishaps>>

\* A withdrawal is claimed: the thread saves the session of its own episode, the
\* one that runs or one that ended, whatever session.json says.
RelaySaves(s) ==
    /\ \/ s \in relays
       \/ phase = "step" /\ s = episode
    /\ session' = s
    /\ UNCHANGED <<new, phase, episode, storyStep, proverOf, stateOf, files, filer, relays, nodeUp, operatorUp,
                   log, rollupsOnL1, built, onRollup, deploys, drops, halts, told, emptied, kept, mishaps>>

\* A deployment, or the node, does not start: the runner stops what it started
\* and tries again.
StartFails ==
    /\ phase \in {"contracts", "node"}
    /\ halts < MaxHalts
    /\ halts' = halts + 1
    /\ phase' = "idle"
    /\ UNCHANGED <<new, episode, storyStep, session, proverOf, stateOf, files, filer, relays, nodeUp, operatorUp,
                   log, rollupsOnL1, built, onRollup, deploys, drops, told, emptied, kept, mishaps>>

-----------------------------------------------------------------------------
(* The processes, logrotate and L1                                         *)

RunnerInit ==
    /\ phase = "idle" /\ new \in BOOLEAN
    /\ episode = EmptySession /\ session = EmptySession
    /\ storyStep = 0
    /\ proverOf = NoRollup /\ stateOf = NoRollup
    /\ files = NoFiles
    /\ filer = FilerOff /\ relays = {}
    /\ nodeUp = FALSE /\ operatorUp = FALSE
    /\ log = <<>>
    /\ rollupsOnL1 = {}
    /\ built = <<>> /\ onRollup = 0
    /\ deploys = 0 /\ drops = 0 /\ halts = 0
    /\ told = <<>> /\ emptied = 0 /\ kept = EmptySession /\ mishaps = {}

\* The operator reports what the node preconfirmed or posted, unless it stops
\* before it writes the line.
Report(line) ==
    \/ /\ Len(told) < MaxReports /\ Len(log) < MaxLines
       /\ log' = Append(log, line)
       /\ told' = Append(told, line)
       /\ UNCHANGED <<operatorUp, halts>>
    \/ /\ halts < MaxHalts
       /\ halts' = halts + 1
       /\ operatorUp' = FALSE
       /\ UNCHANGED <<log, told>>

PreconfirmsNext ==
    /\ nodeUp /\ operatorUp
    /\ Len(built) < MaxReports
    /\ built' = Append(built, drops + 1)
    /\ Report([type |-> "preconfirm", number |-> Len(built) + 1, version |-> drops + 1])
    /\ UNCHANGED <<new, phase, episode, storyStep, session, proverOf, stateOf, files, filer, relays, nodeUp,
                   rollupsOnL1, onRollup, deploys, drops, emptied, kept, mishaps>>

PostsNext ==
    /\ nodeUp /\ operatorUp
    /\ onRollup < Len(built)
    /\ onRollup' = onRollup + 1
    /\ Report([type |-> "advance", number |-> onRollup + 1, version |-> built[onRollup + 1]])
    /\ UNCHANGED <<new, phase, episode, storyStep, session, proverOf, stateOf, files, filer, relays, nodeUp,
                   rollupsOnL1, built, deploys, drops, emptied, kept, mishaps>>

\* The node drops the blocks that the rollup does not have.
Drops ==
    /\ nodeUp
    /\ onRollup < Len(built)
    /\ drops < MaxDrops
    /\ drops' = drops + 1
    /\ built' = SubSeq(built, 1, onRollup)
    /\ UNCHANGED <<new, phase, episode, storyStep, session, proverOf, stateOf, files, filer, relays, nodeUp,
                   operatorUp, log, rollupsOnL1, onRollup, deploys, halts, told, emptied, kept, mishaps>>

ProcessStops ==
    /\ halts < MaxHalts
    /\ halts' = halts + 1
    /\ \/ nodeUp /\ nodeUp' = FALSE /\ UNCHANGED operatorUp
       \/ operatorUp /\ operatorUp' = FALSE /\ UNCHANGED nodeUp
    /\ UNCHANGED <<new, phase, episode, storyStep, session, proverOf, stateOf, files, filer, relays, log,
                   rollupsOnL1, built, onRollup, deploys, drops, told, emptied, kept, mishaps>>

\* The runner is killed, and what it started with it, and starts again, with or
\* without --new, as the service does.  It only knows what its files say.
RunnerCrash ==
    /\ halts < MaxHalts
    /\ halts' = halts + 1
    /\ phase' = "idle"
    /\ new' \in BOOLEAN
    /\ episode' = EmptySession
    /\ storyStep' = 0
    /\ filer' = FilerOff /\ relays' = {}
    /\ nodeUp' = FALSE /\ operatorUp' = FALSE
    /\ Befalls("--new forgotten", new /\ ~new' /\ stateOf # proverOf)
    /\ UNCHANGED <<session, proverOf, stateOf, files, log, rollupsOnL1, built, onRollup,
                   deploys, drops, told, emptied, kept>>

\* Whether the log has lines of this rollup that the filer, or the next one,
\* has not filed.
Unfiled ==
    /\ told # <<>>
    /\ IF filer.on THEN filer.of # emptied \/ filer.place < Len(log)
       ELSE kept.filed # NotSaved /\ (kept.of # emptied \/ kept.filed < Len(log))

\* logrotate copies the log and empties it, whatever of it is filed.
Rotate ==
    /\ log # <<>>
    /\ halts < MaxHalts
    /\ halts' = halts + 1
    /\ log' = <<>>
    /\ emptied' = emptied + 1
    /\ Befalls("emptied", Unfiled)
    /\ UNCHANGED <<new, phase, episode, storyStep, session, proverOf, stateOf, files, filer, relays, nodeUp,
                   operatorUp, rollupsOnL1, built, onRollup, deploys, drops, told, kept>>

\* The devnet is replaced by a new one while nothing runs, and no claim on the
\* old one still gets through.
NewDevnet ==
    /\ phase = "idle" /\ ~filer.on
    /\ rollupsOnL1 # {}
    /\ halts < MaxHalts
    /\ halts' = halts + 1
    /\ rollupsOnL1' = {} /\ relays' = {}
    /\ UNCHANGED <<new, phase, episode, storyStep, session, proverOf, stateOf, files, filer, nodeUp, operatorUp,
                   log, built, onRollup, deploys, drops, told, emptied, kept, mishaps>>

RunnerNext ==
    \/ Resume
    \/ WriteGenesis
    \/ DeployContracts
    \/ SaveProver
    \/ ClearBlocks
    \/ SaveSession
    \/ StartNode
    \/ StartOperator
    \/ \E fails \in BOOLEAN : Step(fails)
    \/ \E claiming \in BOOLEAN : EndEpisode(claiming)
    \/ \E t \in relays \cup {episode} : RelaySaves(t)
    \/ StartFails
    \/ FileLine
    \/ SaveFiled
    \/ NoticeRotation
    \/ FilerStops
    \/ FilerDies
    \/ PreconfirmsNext
    \/ PostsNext
    \/ Drops
    \/ ProcessStops
    \/ RunnerCrash
    \/ Rotate
    \/ NewDevnet

-----------------------------------------------------------------------------
(* Properties                                                              *)

\* The runner's state is well typed.
RunnerTypeOK ==
    /\ phase \in {"idle", "contracts", "prover", "blocks", "session", "node", "operator", "step"}
    /\ DOMAIN files = Numbers
    /\ storyStep \in 0..(MaxStep + 1)
    /\ proverOf \in 0..MaxDeploys /\ stateOf \in 0..MaxDeploys
    /\ filer.place \in 0..MaxLines
    /\ \A s \in {episode, session, kept} \cup relays : s.filed \in NotSaved..MaxLines
    /\ onRollup \in 0..Len(built)
    /\ mishaps \subseteq Mishaps

\* The node, the operator and the filer work for one rollup, that L1 has, with
\* its prover's key and, with one exception, its genesis.  The exception: a
\* restart without --new, such as the service's, after a runner with --new wrote
\* the new genesis and before it kept the new prover's key, resumes the previous
\* rollup with the new one's genesis, as resume asks for a state file and not
\* whose it is (runner.py:240).
OneRollup ==
    nodeUp => /\ episode.rollup = session.rollup
              /\ proverOf = episode.rollup
              /\ episode.rollup \in rollupsOnL1
              /\ "--new forgotten" \notin mishaps => stateOf = episode.rollup

\* A filer that got to the end of the log, with an offset into that log and not
\* an earlier one, has filed each line that the operator wrote for the rollup,
\* and once: a block's file holds every
\* preconfirmation reported at its height, the replaced ones as evidence under
\* "broken", and the session's waiting blocks are the ones last preconfirmed
\* that no post covers.  This is so when the runner, the node or the operator
\* stops at any time, and when logrotate empties a log whose lines are filed, as
\* long as none of the Mishaps befell the rollup:
\*  - "--new forgotten": see OneRollup;
\*  - "not saved": the runner stopped with reports in the log before it saved
\*    the session with a first "filed", and the next one started at the log's
\*    end (runner.py:432-433), so these are lost, which runner.py:431 denies;
\*  - "emptied": logrotate emptied lines that were not filed;
\*  - "passed over": the new log outgrew the old one's offset before the filer,
\*    or the next runner, compared them (runner.py:433, 459), so it went on in
\*    the middle, or died on half a line;
\*  - "saved over": an episode resumed from what the relaying thread of an
\*    earlier one had saved over the last one's session (runner.py:196).
\* And one preconfirmation is not evidence whatever happens, which
\* runner.py:466-467 says it is: the one before a block whose own
\* preconfirmation was not reported, as its post replaces it (runner.py:471).
EveryReportFiled ==
    /\ mishaps = {}
    /\ filer.on /\ ~filer.held
    /\ filer.of = emptied /\ filer.place = Len(log)
    =>  LET Confirms == {i \in DOMAIN told : told[i].type = "preconfirm"}
            Posted(n) == \E i \in DOMAIN told : told[i].type = "advance" /\ told[i].number >= n
            Replaced(i) == \E j \in Confirms : j > i /\ told[j].number <= told[i].number
            Overwritten(i) ==
                \E j \in DOMAIN told :
                    /\ j > i /\ told[j].type = "advance" /\ told[j].number = told[i].number
                    /\ \A k \in Confirms :
                        told[k].number = told[j].number => told[k].version # told[j].version
        IN /\ \A i \in Confirms : ~Overwritten(i) =>
                told[i].version \in {files[told[i].number].version}
                                     \cup ToSet(files[told[i].number].broken)
           /\ \A n \in Numbers : IsInjective(Append(files[n].broken, files[n].version))
           /\ ToSet(episode.waiting) =
                {[number |-> told[i].number, version |-> told[i].version] :
                    i \in {k \in Confirms : ~Replaced(k) /\ ~Posted(told[k].number)}}

\* An episode works for one rollup and picks up where the last one stopped
\* (runner.py, resume, start_operator, file_blocks), but for the exceptions named
\* above.
PicksUpWhereItStopped == OneRollup /\ EveryReportFiled
=============================================================================
