---------------------------- MODULE WorkflowGate ----------------------------
(***************************************************************************)
(* The governed commands of the Linear proxy on one workflow ticket         *)
(* (src/src/proxy.ts and workflow-gate.ts: resolveMetaIntent,               *)
(* checkWorkflowRules, applyStateTransition, setStateAtomic).               *)
(*                                                                          *)
(* A command of an agent reaches the proxy as one or several requests with  *)
(* one X-Openclaw-Command-Id: the first may be an issueUpdate or a comment, *)
(* the rest are the chunks of a long comment.  Every request runs the whole *)
(* pipeline under a lock on the ticket id it carries: resolve the verb,     *)
(* check the rules, remember the state the command began in, read the       *)
(* source state, forward the request to Linear, apply the transition.  Each *)
(* step reads the ticket from Linear anew; a read may return the ticket as  *)
(* it was before the last write, and overrides (rewind under another id,    *)
(* admin, reconciliation) take no lock.                                     *)
(***************************************************************************)
EXTENDS Integers, FiniteSets, WriteContract

CONSTANTS
    States,        \* states of the workflows
    Settings,      \* pairs of a workflow definition and whether reads lag
    Agents,
    Known,         \* the agents the capability policy lists
    Capabilities,
    Holds,         \* the agents the policy gives each capability
    Commands,      \* ids of commands
    Keys,          \* forms in which a request names the ticket
    MaxChunks,     \* bound: requests of one command
    MaxUpsets      \* bound: overrides and restarts of the connector

Nobody == "nobody"
AdHoc == "ad-hoc"      \* no workflow label any more
Unknown == "unknown"   \* a state that could not be read
None == "none"

ASSUME BoundsAssumption ==
    MaxChunks \in Nat \ {0} /\ MaxUpsets \in Nat
ASSUME NamesAssumption ==
    Nobody \notin Agents /\ States \cap {AdHoc, Unknown, None} = {}
ASSUME PolicyAssumption ==
    /\ Known \subseteq Agents
    /\ {"workflow:break-glass", "workflow:force-deploy"} \subseteq Capabilities
    /\ None \notin Capabilities
    /\ Holds \in [Capabilities -> SUBSET Known]

Stewards == Holds["workflow:break-glass"]

Meta == {"continue-workflow", "request-revision", "begin-workflow"}

\* A definition: its entry state, its edges (tag and payload decide which edge
\* is the routine one; a verb names one edge of a state; an edge may need a
\* capability, nominate its holders as approvers, or be left to a human at the
\* stakes of the ticket), its terminal states and approval gates, the agent that
\* fills the owner role of each state, the order in which it lists the states,
\* the target of the break-glass verb, and whether closing must be read back.
\* Bound: sends, what the agents of the instance send.
Tags == {"continue", "revision", "special", "none"}
Definition(w) ==
    /\ w.entry \in States /\ w.escape \in States
    /\ w.terminal \subseteq States /\ w.gates \subseteq States
    /\ w.owner \in [States -> Agents \cup {Nobody}]
    /\ w.order \in [States -> Nat] /\ w.strict \in BOOLEAN
    /\ \A e \in w.edges : /\ e.from \in States /\ e.to \in States
                          /\ e.tag \in Tags /\ e.payload \in BOOLEAN
                          /\ e.needs \in Capabilities \cup {None}
                          /\ e.approver \in BOOLEAN /\ e.human \in BOOLEAN
    /\ \A e, f \in w.edges : e.from = f.from /\ e.verb = f.verb => e = f
    /\ w.entry \notin w.terminal
ASSUME SettingsAssumption ==
    \A x \in Settings : x = <<x[1], x[2]>> /\ Definition(x[1]) /\ x[2] \in BOOLEAN

Verbs == {e.verb : e \in UNION {x[1].edges : x \in Settings}} \cup {"escape", "force-deploy"}

VARIABLES
    wf,         \* the ticket's workflow (constant)
    lags,       \* whether Linear's reads lag (constant)
    tix,        \* the ticket in Linear: state label and delegate
    old,        \* the ticket a lagging read returns
    applied,    \* applied-state store
    snap,       \* commandAuthSnapshots: the state each command began in
    cmd,        \* the commands
    upsets,     \* number of overrides and restarts
    closed,     \* history: a command closed the ticket
    split       \* history: the delegate may not be the owner of the state

vars == <<wf, lags, tix, old, applied, snap, cmd, upsets, closed, split>>
ticket == <<tix, old>>
bounds == <<wf, lags, upsets>>
history == <<closed, split>>

Tickets == [st : States \cup {AdHoc}, who : Agents \cup {Nobody}]
Pcs == {"resolve", "check", "capture", "source", "forward", "apply", "write"}

Idle == [pc |-> "idle"]
Requests ==
    [pc : Pcs \cup {"between"}, by : Agents, intent : Verbs \cup Meta, key : Keys, update : BOOLEAN,
     chunk : 1..MaxChunks, verb : Verbs \cup {None}, src : States \cup {Unknown},
     dest : States \cup {AdHoc, None}, undo : Tickets,
     auth : States \cup {None}, overtaken : BOOLEAN]

Over == [pc |-> "over"]

TypeOK ==
    /\ <<wf, lags>> \in Settings
    /\ tix \in Tickets /\ old \in Tickets
    /\ applied \in States \cup {None}
    /\ snap \in [Commands -> States \cup {Unknown, None}]
    /\ cmd \in [Commands -> Requests \cup {Idle, Over}]
    /\ upsets \in 0..MaxUpsets
    /\ closed \in BOOLEAN /\ split \in BOOLEAN

Start(w) == [st |-> w.entry, who |-> w.owner[w.entry]]

Init ==
    /\ \E x \in Settings : wf = x[1] /\ lags = x[2]
    /\ tix = Start(wf) /\ old = tix
    /\ applied = None
    /\ snap = [c \in Commands |-> None]
    /\ cmd = [c \in Commands |-> Idle]
    /\ upsets = 0
    /\ closed = FALSE /\ split = FALSE

-----------------------------------------------------------------------------
(* The routine edge of a state (INF-1218) *)

Special(e) == e.tag = "special" \/ e.to = e.from \/ e.approver

\* The states a walk along n edges reaches from the entry.
Reached == [n \in 0..Cardinality(States) |->
              LET walk[i \in 0..n] ==
                    IF i = 0 THEN {wf.entry}
                    ELSE walk[i - 1] \cup {e.to : e \in {f \in wf.edges : /\ ~ Special(f)
                                                                         /\ f.tag # "revision"
                                                                         /\ f.from \in walk[i - 1]}}
              IN  walk[n]]

\* buildStateRank: the length of the shortest walk from the entry.
Ranked(s) == \E n \in DOMAIN Reached : s \in Reached[n]
Rank(s) == CHOOSE n \in DOMAIN Reached : s \in Reached[n] /\ (n > 0 => s \notin Reached[n - 1])

\* classifyRoutineTransition
Revision(e) ==
    /\ ~ Special(e)
    /\ \/ e.tag = "revision"
       \/ e.tag = "none" /\ Ranked(e.from) /\ Ranked(e.to) /\ Rank(e.to) < Rank(e.from)

From(s) == {e \in wf.edges : e.from = s}
Tagged(es, tag) == {e \in es : e.tag = tag}
VerbsOf(es) == {e.verb : e \in es}

\* analyzeStateRoutine: the edge that continue-workflow takes.  A state with two
\* forward edges to different open states is a branch and has none.
RoutineForward(s) ==
    LET forwards == {e \in From(s) : ~ Special(e) /\ ~ Revision(e)}
        plain == {e \in forwards : ~ e.payload}
    IN  IF Cardinality({e.to : e \in forwards} \ wf.terminal) >= 2 THEN {}
        ELSE IF Tagged(forwards, "continue") # {} THEN VerbsOf(Tagged(forwards, "continue"))
        ELSE IF Cardinality(forwards) = 1 THEN VerbsOf(forwards)
        ELSE IF Cardinality(plain) = 1 THEN VerbsOf(plain)
        ELSE {}

\* resolveRoutineEdge for request-revision: the tagged edge, else the nearest.
RoutineRevision(s) ==
    LET back == {e \in From(s) : Revision(e)}
    IN  IF Tagged(back, "revision") # {} THEN VerbsOf(Tagged(back, "revision"))
        ELSE VerbsOf({e \in back : \A f \in back : Rank(f.to) <= Rank(e.to)})

RoutineVerbs(intent, s) ==
    IF intent = "request-revision" THEN RoutineRevision(s) ELSE RoutineForward(s)

-----------------------------------------------------------------------------
(* Reads, writes and the ticket lock *)

Reads == IF lags THEN {tix, old} ELSE {tix}

\* Mutant: a ticket without a workflow label counts as one in a state.
SeenStatesAll == {Unknown} \cup {read.st : read \in Reads}

\* The state label a read finds, if any.
SeenStates == {Unknown} \cup ({read.st : read \in Reads} \ {AdHoc})

WriteTicket(t) == tix' = t /\ old' = IF lags THEN tix ELSE t

\* runWithTicketLock: one request at a time for each form of the ticket's id.
LockFree(k) == \A d \in Commands : cmd[d].pc \in Pcs => cmd[d].key # k

\* The request of the command is answered, and the last request ends it.
Answered(c) ==
    IF cmd[c].chunk = MaxChunks THEN Over
    ELSE [cmd[c] EXCEPT !.pc = "between", !.update = FALSE, !.verb = None, !.src = Unknown,
                        !.dest = None, !.undo = Start(wf), !.auth = None, !.overtaken = FALSE]

\* The lock is given back with the answer.
Reply(c) == cmd' = [cmd EXCEPT ![c] = Answered(c)]

Step(c, pc) == cmd' = [cmd EXCEPT ![c].pc = pc]

\* A comment finds the snapshot of its command; an issueUpdate never looks.
Hit(c) == ~ cmd[c].update /\ snap[c] # None

\* The state a reader believes in that consults the applied-state store.
Believed(s) == IF applied # None THEN applied ELSE s

-----------------------------------------------------------------------------
(* The requests of a command *)

\* Agents name a verb, or let the proxy find the routine one; generic edges are
\* offered as continue-workflow only, unless they nominate an approver.
Intents == Meta \cup {"escape", "force-deploy"}
                \cup {e.verb : e \in {f \in wf.edges : f.tag # "continue" \/ f.approver}}

Begin(c) ==
    /\ cmd[c] = Idle
    /\ \E by \in Agents, intent \in Intents, k \in Keys, update \in BOOLEAN :
        /\ <<by, intent>> \in wf.sends
        /\ LockFree(k)
        /\ cmd' = [cmd EXCEPT ![c] =
                     [pc |-> "resolve", by |-> by, intent |-> intent, key |-> k, update |-> update,
                      chunk |-> 1, verb |-> None, src |-> Unknown, dest |-> None,
                      undo |-> Start(wf), auth |-> None, overtaken |-> FALSE]]
    /\ UNCHANGED <<ticket, applied, snap, bounds, history>>

\* The next chunk of the comment; a chunk that finds the lock taken is dropped.
Follow(c) ==
    /\ cmd[c].pc = "between" /\ cmd[c].chunk < MaxChunks
    /\ LockFree(cmd[c].key)
    /\ cmd' = [cmd EXCEPT ![c].pc = "resolve", ![c].chunk = @ + 1]
    /\ UNCHANGED <<ticket, applied, snap, bounds, history>>

\* Mutant: a snapshot of an earlier state satisfies an approval gate.
GateRestsNever(c, live) == FALSE

\* INF-562: a ticket that went on to an approval gate since the command began.
\* A begin-workflow, which takes the same edge, is not held back.
GateRests(c, live) ==
    /\ cmd[c].intent = "continue-workflow"
    /\ Hit(c) /\ snap[c] # Unknown
    /\ live # snap[c] /\ live \in wf.gates

\* resolveMetaIntent: the routine verb of the state the command began in.
Resolve(c) ==
    /\ cmd[c].pc = "resolve"
    /\ \/ /\ cmd[c].intent \notin Meta
          /\ cmd' = [cmd EXCEPT ![c].pc = "check", ![c].verb = cmd[c].intent]
       \/ /\ cmd[c].intent \in Meta
          /\ \E read \in Reads :
              LET st == IF Hit(c) /\ snap[c] # Unknown THEN snap[c] ELSE read.st
                  verbs == IF read.st = AdHoc \/ GateRests(c, read.st) THEN {}
                           ELSE RoutineVerbs(cmd[c].intent, st)
              IN  \/ \E v \in verbs : cmd' = [cmd EXCEPT ![c].pc = "check", ![c].verb = v]
                  \/ verbs = {} /\ Reply(c)
       \/ cmd[c].intent \in Meta /\ Reply(c)    \* the read fails
    /\ UNCHANGED <<ticket, applied, snap, bounds, history>>

\* Who may act in place of the delegate and of the owner of a state.
ActsAsDelegate(by, who) == who \in {Nobody, by} \/ by \in Stewards
ActsAsOwner(by, s) ==
    \/ wf.owner[s] \in {Nobody, by}
    \/ wf.owner[s] \in Stewards /\ by \in Stewards

Edges(s, v) == {e \in wf.edges : e.from = s /\ e.verb = v}

\* The edges a verb stands for: force-deploy is another name of continue where
\* the state has no edge of that name.
Matches(s, v) ==
    IF v = "force-deploy" /\ Edges(s, v) = {} THEN Edges(s, "continue") ELSE Edges(s, v)

\* Who may fire an edge.  Its capability and the owner role decide for an agent
\* of the policy; an approver edge needs the capability alone, force-deploy one
\* of its own; anybody else is a human, and signs off where a human has to.
MayFire(by, v, e) ==
    IF by \notin Known THEN e.human
    ELSE IF v = "force-deploy" THEN by \in Holds["workflow:force-deploy"]
    ELSE /\ e.needs # None => by \in Holds[e.needs]
         /\ e.approver \/ ActsAsOwner(by, e.from)

\* The delegate is passed over by an approver the edge nominates.
DesignatedApprover(c, s) ==
    \E e \in Edges(s, cmd[c].verb) : e.approver /\ e.needs # None /\ cmd[c].by \in Holds[e.needs]

\* A human is turned away unless the label has an edge a human signs off.
Registered(c, read) ==
    cmd[c].by \in Known \/ \E e \in Edges(read.st, cmd[c].verb) : e.human

\* Mutant: the caller need not fill the owner role of the state.
AllowedByDelegate(c, read, st) ==
    /\ Hit(c) \/ ActsAsDelegate(cmd[c].by, read.who) \/ DesignatedApprover(c, read.st)
    /\ Matches(st, cmd[c].verb) # {}

\* checkWorkflowRules: delegate, transition, capability and owner role.  With a
\* snapshot the caller is the delegate and the state the one the command began in.
Allowed(c, read, st) ==
    /\ Hit(c) \/ ActsAsDelegate(cmd[c].by, read.who) \/ DesignatedApprover(c, read.st)
    /\ \E e \in Matches(st, cmd[c].verb) :
         cmd[c].by \in Known => MayFire(cmd[c].by, cmd[c].verb, e)

\* The gates that ask for evidence (comment, artifact, walk-through, children,
\* stakes, pull request, release, assignment) may decline any command.
Check(c) ==
    /\ cmd[c].pc = "check"
    /\ \/ \E read \in Reads :
            LET st == IF Hit(c) /\ snap[c] # Unknown THEN snap[c] ELSE Believed(read.st)
            IN  /\ read.st # AdHoc /\ Registered(c, read)
                /\ IF cmd[c].verb = "escape" THEN Hit(c) \/ ActsAsDelegate(cmd[c].by, read.who)
                                             ELSE Allowed(c, read, st)
                /\ cmd' = [cmd EXCEPT ![c].pc = IF Hit(c) THEN "source" ELSE "capture",
                                      ![c].auth = st]
       \/ Reply(c)
    /\ UNCHANGED <<ticket, applied, snap, bounds, history>>

\* The snapshot of the command: its caller and the state label now.
Capture(c) ==
    /\ cmd[c].pc = "capture"
    /\ \E st \in SeenStates : snap' = [snap EXCEPT ![c] = st]
    /\ Step(c, "source")
    /\ UNCHANGED <<ticket, applied, bounds, history>>

\* sourceStateOverride: the state label before the request is forwarded.
Source(c) ==
    /\ cmd[c].pc = "source"
    /\ \E st \in SeenStates :
         cmd' = [cmd EXCEPT ![c].pc = "forward", ![c].src = st]
    /\ UNCHANGED <<ticket, applied, snap, bounds, history>>

OwnerOf(s) == IF s \in wf.terminal \cup {AdHoc} THEN Nobody ELSE wf.owner[s]

\* Mutant: the delegate of a generic edge travels with the request too.
InjectsAlways(e) == TRUE

\* Only the atomic write of the transition moves the delegate of a generic edge.
Injects(e) == e.tag # "continue"

\* The targets whose owner an issueUpdate carries to Linear as the delegate.
Carried(c, st) ==
    IF ~ cmd[c].update THEN {}
    ELSE IF cmd[c].verb = "escape" THEN {wf.escape}
    ELSE {e.to : e \in {f \in Edges(st, cmd[c].verb) : Injects(f)}}

\* Linear takes the request, or nothing happens.
Forward(c) ==
    /\ cmd[c].pc = "forward"
    /\ \/ Reply(c) /\ UNCHANGED <<ticket, split>>
       \/ /\ Step(c, "apply")
          /\ \E read \in Reads :
               LET st == IF cmd[c].src # Unknown THEN cmd[c].src ELSE read.st
                   generic == /\ cmd[c].verb # "escape"
                              /\ \E e \in Edges(st, cmd[c].verb) : e.tag = "continue"
               IN  \/ \E to \in Carried(c, st) :
                        /\ WriteTicket([tix EXCEPT !.who = OwnerOf(to)])
                        /\ split' = (split \/ ~ generic)
                   \/ Carried(c, st) = {} /\ UNCHANGED <<ticket, split>>
    /\ UNCHANGED <<applied, snap, bounds, closed>>

-----------------------------------------------------------------------------
(* Applying the transition *)

\* The state the transition is matched in: the source read before the request
\* was forwarded, else the label now.
Current(c, read) == IF cmd[c].src # Unknown THEN cmd[c].src ELSE read.st

\* Mutant: the guard looks at the label only.
ReentersByLabel(c, st) == st \in wf.terminal /\ Edges(st, cmd[c].verb) = {}

\* A closed ticket, though the label may lag, takes declared exits only.
Reenters(c, st) == Believed(st) \in wf.terminal /\ Edges(Believed(st), cmd[c].verb) = {}

\* The break-glass verb leaves the ticket where it is once it is past the
\* target, demotes it to ad-hoc at the target, and else moves it there.
EscapeTo(st) ==
    IF st \in wf.terminal THEN wf.escape
    ELSE IF wf.order[st] > wf.order[wf.escape] THEN st
    ELSE IF st = wf.escape THEN AdHoc
    ELSE wf.escape

Preserves(c, dest) == cmd[c].verb = "escape" /\ dest \notin wf.terminal \cup {AdHoc, wf.escape}

Destinations(c, st) ==
    IF cmd[c].verb = "escape" THEN {EscapeTo(Believed(st))}
    ELSE IF Reenters(c, st) THEN {}
    ELSE {e.to : e \in Matches(st, cmd[c].verb)}

\* applyStateTransition up to its write: the ticket is read again, and release,
\* artifact, acceptance and delegate checks may still decline.
Apply(c) ==
    /\ cmd[c].pc = "apply"
    /\ \/ \E read \in Reads :
            LET st == Current(c, read)
            IN  /\ read.st # AdHoc
                /\ \E dest \in Destinations(c, st) :
                     /\ dest # st \/ Preserves(c, dest)
                     /\ cmd' = [cmd EXCEPT ![c].pc = "write", ![c].dest = dest, ![c].undo = read]
       \/ Reply(c)
    /\ UNCHANGED <<ticket, applied, snap, bounds, history>>

\* The delegate the write seats.
Seats(c) ==
    IF Preserves(c, cmd[c].dest) THEN Nobody
    ELSE IF cmd[c].verb = "escape" /\ ~ cmd[c].update /\ cmd[c].dest \notin wf.terminal THEN cmd[c].by
    ELSE OwnerOf(cmd[c].dest)

\* A verified write (see TransitionWrite) is recorded as applied once accepted.
\* Reads that lag behind one that was undone may find what it had written.
VerifiedWrite(t, undo, result) ==
    /\ IF result = "rejected" THEN UNCHANGED ticket
       ELSE /\ tix' \in Leaves(result, t, tix, undo)
            /\ old' \in IF ~ lags THEN {tix'}
                        ELSE {tix} \cup IF result = "rolledBack" THEN {t} ELSE {}
    /\ applied' = IF result \in Accepted THEN t.st ELSE None

\* The task workflow is closed by a write that was read back, or not at all.
ResultsAt(dest) ==
    IF dest \in wf.terminal /\ wf.strict THEN WriteResults \ {"unverified"} ELSE WriteResults

\* The write of the transition and the answer.  Demoting to ad-hoc is a plain
\* write.  Closing the ticket drops the snapshots of the other commands on it.
Write(c) ==
    /\ cmd[c].pc = "write"
    /\ LET dest == cmd[c].dest
           closes == dest \in wf.terminal
       IN  \/ /\ dest = AdHoc
              /\ \/ /\ WriteTicket([tix EXCEPT !.st = AdHoc])
                    /\ applied' = None /\ closed' = FALSE /\ split' = TRUE
                 \/ UNCHANGED <<ticket, applied, history>>
              /\ UNCHANGED snap
           \/ /\ dest # AdHoc
              /\ \E result \in ResultsAt(dest) :
                   /\ VerifiedWrite([st |-> dest, who |-> Seats(c)], cmd[c].undo, result)
                   /\ IF result \in Accepted
                      THEN /\ snap' = [d \in Commands |-> IF closes /\ d # c THEN None ELSE snap[d]]
                           /\ closed' = /\ cmd[c].verb # "escape"
                                        /\ closes \/ (closed /\ Edges(tix.st, cmd[c].verb) = {})
                           /\ split' = (cmd[c].verb = "escape" \/ result = "unverified")
                      ELSE /\ closed' = (closed /\ cmd[c].verb # "escape")
                           /\ split' = (split \/ result \in {"torn", "rolledBack"})
                           /\ UNCHANGED snap
    /\ Reply(c)
    /\ UNCHANGED bounds

-----------------------------------------------------------------------------
(* Overrides, time and restarts *)

\* setStateAtomic for an admin, a rewind under another id or a reconciliation:
\* no lock; only a forced one closes an open ticket; the owner may be seated.
Override ==
    /\ upsets < MaxUpsets
    /\ upsets' = upsets + 1
    /\ tix.st # AdHoc
    /\ \E target \in States, result \in WriteResults \ {"rolledBack"}, force \in BOOLEAN :
        /\ target \in wf.terminal /\ ~ force => \E read \in Reads : read.st \in wf.terminal
        /\ \E who \in {tix.who, OwnerOf(target)} :
             VerifiedWrite([st |-> target, who |-> who], tix, result)
    /\ cmd' = [c \in Commands |-> IF cmd[c].pc \in Pcs THEN [cmd[c] EXCEPT !.overtaken = TRUE]
                                                      ELSE cmd[c]]
    /\ closed' = FALSE /\ split' = TRUE
    /\ UNCHANGED <<wf, lags, snap>>

\* Linear's reads catch up; only then, a minute after the write, the applied
\* state is forgotten: the lag and a request take seconds.  A snapshot is kept
\* for ten minutes.
CatchUp ==
    /\ old # tix
    /\ old' = tix
    /\ UNCHANGED <<tix, applied, snap, cmd, bounds, history>>

ExpireApplied ==
    /\ applied # None /\ old = tix
    /\ \A c \in Commands : cmd[c].pc \notin Pcs
    /\ applied' = None
    /\ UNCHANGED <<ticket, snap, cmd, bounds, history>>

ExpireSnapshot(c) ==
    /\ cmd[c].pc = "between" /\ snap[c] # None
    /\ snap' = [snap EXCEPT ![c] = None]
    /\ UNCHANGED <<ticket, applied, cmd, bounds, history>>

\* A restart loses the requests being served, the snapshots and the applied
\* state; it takes longer than the lag.
Crash ==
    /\ upsets < MaxUpsets /\ old = tix
    /\ upsets' = upsets + 1
    /\ applied' = None
    /\ snap' = [c \in Commands |-> None]
    /\ cmd' = [c \in Commands |-> IF cmd[c].pc \in Pcs THEN Answered(c) ELSE cmd[c]]
    /\ UNCHANGED <<wf, lags, ticket, history>>

Next ==
    \/ \E c \in Commands : \/ Begin(c) \/ Follow(c) \/ Resolve(c) \/ Check(c) \/ Capture(c)
                           \/ Source(c) \/ Forward(c) \/ Apply(c) \/ Write(c) \/ ExpireSnapshot(c)
    \/ Override \/ CatchUp \/ ExpireApplied \/ Crash

Spec == Init /\ [][Next]_vars

-----------------------------------------------------------------------------
(* Properties *)

\* The ticket is in another state because of a step of the command.
Moves(c) == cmd[c].pc = "write" /\ cmd'[c].pc # "write" /\ tix'.st # tix.st

\* A ticket that a command closed stays closed, however far reads lag behind the
\* write, whatever requests of other commands were on their way and whatever
\* chunks follow; overrides, the break-glass verb and a declared exit reopen it.
TerminalIsFinal == closed => tix.st \in wf.terminal

\* The command takes the ticket on, not back for a revision.
Advances(c) == Moves(c) /\ \E e \in Matches(tix.st, cmd[c].verb) : e.tag # "revision"

\* INF-562: an approval gate is advanced only by a request that was authorised in
\* the gate, never by one authorised in a state the ticket was in before: though
\* the verb, the authorisation and the source come from three reads and a snapshot
\* (when reads do not lag and no override comes while the request is served).
\* The code guards this for continue-workflow: the later requests of a
\* begin-workflow and of a force-deploy do advance a gate on an old snapshot.
GateNeedsFreshAct ==
    [][\A c \in Commands :
         /\ Advances(c) /\ tix.st \in wf.gates
         /\ cmd[c].intent # "begin-workflow" /\ cmd[c].verb \notin {"escape", "force-deploy"}
         /\ ~ lags /\ ~ cmd[c].overtaken
         => cmd[c].auth = tix.st]_vars

\* No two states can be left by the same verb.
VerbsDiffer ==
    \A s, t \in States, v \in Verbs : Matches(s, v) # {} /\ Matches(t, v) # {} => s = t

\* In a workflow whose states are left by different verbs a command moves the
\* ticket only along an edge out of the state the ticket is in, for an agent that
\* may fire it: an owner with the capability, an approver the edge nominates, a
\* holder of force-deploy, a human where one has to sign off: though the chunks
\* are authorised by what the first request saw and the source is read anew for
\* each, and though a write may be undone (when reads do not lag and no override
\* comes in between).
MovesAreLegal ==
    [][\A c \in Commands :
         /\ Moves(c) /\ cmd[c].verb # "escape" /\ ~ cmd[c].overtaken
         /\ VerbsDiffer /\ ~ lags
         => \E e \in Matches(tix.st, cmd[c].verb) :
              e.to = tix'.st /\ MayFire(cmd[c].by, cmd[c].verb, e)]_vars

\* INF-1147: the label and the delegate of a ticket move together.  Only a
\* non-generic issueUpdate (its delegate travels ahead), an override, the
\* break-glass verb and a write that was undone, torn or accepted without being
\* read back tear them apart.
HandoverIsWhole == ~ split => tix.who = OwnerOf(tix.st)

=============================================================================
