------------------------------- MODULE NpcChat -------------------------------
(* Who talks to a resident.  A human talks over a WebSocket (ws/handlers/chat.py), an
   external agent with one REST turn (routers/agent_players.py), and both exclude each
   other with one Redis key, the chat lock of ws/manager.py.  The row's own status is
   written besides by the resident loop (agent/loop.py, agent/chat.py), by the reaper
   of abandoned turns (services/player_npc_chat_service.py) and by the sweep of stuck
   social chats (services/social_status_recovery.py); there is no lock around it.

   One resident and one agent turn.  A step is one Redis command or one database
   transaction; lock_resident's SET and GET are one step.  The agent's transactions hold
   the resident's row, so the Redis command in the middle of one is part of it.
   "popular", "walking" and the like are "idle"; a lock or a lease is live until it
   lapses.  The queue of those who are refused decides nothing here and is left out. *)
EXTENDS Integers

CONSTANTS Users, Conns, Requests,  \* people, their sockets, the agent's requests for one turn
          Casts,         \* who takes part, whether the loop skips the engaged, and three bounds:
                         \* start_chat messages of one socket, locks or leases that lapse before
                         \* their owner is done, processes that die
          Nobody

ASSUME CastAssumption ==
    Casts \subseteq [user : [Conns -> Users], conns : SUBSET Conns, requests : SUBSET Requests,
                    skip : BOOLEAN, starts : Nat, lapses : Nat, deaths : Nat]
ASSUME NameAssumption == /\ Users \cap Requests = {} /\ Conns \cap Requests = {}
                         /\ Nobody \notin Users \cup Requests

VARIABLES cast,      \* who takes part, and chat_engaged_tick_skip_enabled: chosen once
          status,    \* residents.status
          lock,      \* sv:chatting:<resident>: a user, a request's token, or nobody
          conn,      \* sockets: what the handler is doing, and whether its context is in chat
          turn,      \* the receipt: its status, the token that owns it, whether that is live
          req,       \* requests: where each is, whether its last lock_resident succeeded
          loop,      \* the resident loop: "off", "probing", "healing", "ticking", "social"
          reaper,    \* the token the reaper has still to release
          lapsed,    \* history: the talks whose lock lapsed, or whose user has let it go
          charged,   \* history: how often the agent paid for the turn
          lapses, deaths

agent == <<turn, req, charged>>
counts == <<lapses, deaths>>
vars == <<cast, status, lock, conn, agent, loop, reaper, lapsed, counts>>

Fresh(starts) == [pc |-> "idle", talking |-> FALSE, read |-> "idle", starts |-> starts]
NoTurn == [status |-> "none", token |-> Nobody, live |-> FALSE]

Init == /\ cast \in Casts
        /\ status \in {"idle", "sleeping"}
        /\ lock = Nobody
        /\ conn = [c \in Conns |-> Fresh(0)]
        /\ turn = NoTurn
        /\ req = [r \in Requests |-> [pc |-> "new", own |-> FALSE]]
        /\ loop = "off" /\ reaper = Nobody
        /\ lapsed = {} /\ charged = 0 /\ lapses = 0 /\ deaths = 0

User(c) == cast.user[c]
In(c, pc) == c \in cast.conns /\ conn[c].pc = pc
Moves(c, pc) == conn' = [conn EXCEPT ![c].pc = pc]
At(r, pc) == r \in cast.requests /\ req[r].pc = pc
Goes(r, pc, own) == req' = [req EXCEPT ![r] = [pc |-> pc, own |-> own]]

\* lock_resident succeeds: the key is free, or one's own
Lockable(o) == lock \in {Nobody, o}
\* Mutant: the owner is not checked
MutUnlock(o) == lock' = Nobody
\* unlock_resident(expected_owner)
Unlock(o) == lock' = IF lock = o THEN Nobody ELSE lock

-----------------------------------------------------------------------------
(* A socket; its messages are handled one at a time *)

HumanOnly == UNCHANGED <<cast, agent, loop, reaper, counts>>

\* handle_start_chat reads the row ...
StartReads(c) ==
    /\ In(c, "idle") /\ conn[c].starts < cast.starts
    /\ conn' = [conn EXCEPT ![c].pc = IF status = "chatting" THEN "idle" ELSE "locking",
                            ![c].read = status, ![c].starts = @ + 1]
    /\ HumanOnly /\ UNCHANGED <<status, lock, lapsed>>

\* ... takes the lock ...
StartLocks(c) ==
    /\ In(c, "locking")
    /\ IF Lockable(User(c))
       THEN lock' = User(c) /\ Moves(c, "opening") /\ lapsed' = lapsed \ {c}
       ELSE UNCHANGED <<lock, lapsed>> /\ Moves(c, "idle")
    /\ HumanOnly /\ UNCHANGED status

\* ... and commits the conversation and the status
StartCommits(c) ==
    /\ In(c, "opening")
    /\ status' = "chatting"
    /\ conn' = [conn EXCEPT ![c] = [Fresh(conn[c].starts) EXCEPT !.talking = TRUE]]
    /\ HumanOnly /\ UNCHANGED <<lock, lapsed>>

\* the resident sleeps, and the user will not or cannot pay for waking it: the lock goes,
\* also from under a talk that this socket has had open since before
StartRefused(c) ==
    /\ In(c, "opening") /\ conn[c].read = "sleeping"
    /\ Unlock(User(c)) /\ Moves(c, "idle")
    /\ lapsed' = IF conn[c].talking THEN lapsed \cup {c} ELSE lapsed
    /\ HumanOnly /\ UNCHANGED status

\* handle_end_chat: status, lock, context
EndCommits(c) ==
    /\ In(c, "idle") /\ conn[c].talking
    /\ status' = "idle" /\ Moves(c, "unlocking")
    /\ HumanOnly /\ UNCHANGED <<lock, lapsed>>

EndUnlocks(c) ==
    /\ In(c, "unlocking")
    /\ Unlock(User(c)) /\ Moves(c, "forgetting")
    /\ HumanOnly /\ UNCHANGED <<status, lapsed>>

EndForgets(c) ==
    /\ In(c, "forgetting")
    /\ conn' = [conn EXCEPT ![c] = Fresh(conn[c].starts)]
    /\ lapsed' = lapsed \ {c}
    /\ HumanOnly /\ UNCHANGED <<status, lock>>

\* the socket closes, or a handler raises: _cleanup
Drop(c) ==
    /\ c \in cast.conns /\ conn[c].pc \notin {"resetting", "leaving"}
    /\ IF conn[c].talking THEN Unlock(User(c)) /\ Moves(c, "resetting")
                          ELSE Moves(c, "leaving") /\ UNCHANGED lock
    /\ HumanOnly /\ UNCHANGED <<status, lapsed>>

CleanupResets(c) ==
    /\ In(c, "resetting")
    /\ status' = IF status = "chatting" THEN "idle" ELSE status
    /\ Moves(c, "leaving")
    /\ HumanOnly /\ UNCHANGED <<lock, lapsed>>

\* disconnect(): every lock of the user goes; the user may connect again
Leave(c) ==
    /\ In(c, "leaving")
    /\ Unlock(User(c))
    /\ conn' = [conn EXCEPT ![c] = Fresh(conn[c].starts)]
    /\ lapsed' = lapsed \ {c}
    /\ HumanOnly /\ UNCHANGED status

\* the worker dies: Redis and the rows stay as they are
WorkerDies(c) ==
    /\ c \in cast.conns /\ conn[c].starts > 0 /\ deaths < cast.deaths
    /\ conn' = [conn EXCEPT ![c] = Fresh(conn[c].starts)]
    /\ lapsed' = lapsed \ {c}
    /\ deaths' = deaths + 1
    /\ UNCHANGED <<cast, status, lock, agent, loop, reaper, lapses>>

-----------------------------------------------------------------------------
(* The agent's turn: claim the receipt, call the model, finalize; the turn may be sent
   again while another request for it is still under way *)

AgentOnly == UNCHANGED <<cast, conn, loop, reaper, counts>>

Pending == turn.status = "pending"
Holds(r) == Pending /\ turn.token = r
\* Mutant: a stored answer is not looked for
MutAdmits == \/ turn.status = "none" /\ status = "idle"
             \/ ~turn.live /\ status \in {"idle", "chatting"}

\* a new turn wants a resident who is free, a resumed one also takes one who is chatting
Admits == \/ turn.status = "none" /\ status = "idle"
          \/ Pending /\ ~turn.live /\ status \in {"idle", "chatting"}

\* phase 1, under the locks of the profile, the receipt and the resident
Begin(r) ==
    /\ At(r, "new") /\ Admits /\ lock = Nobody
    /\ lock' = r /\ status' = "chatting"
    /\ turn' = [status |-> "pending", token |-> r, live |-> TRUE]
    /\ Goes(r, "calling", FALSE)
    /\ AgentOnly /\ UNCHANGED <<lapsed, charged>>

\* dies with the lock taken and nothing committed
BeginDies(r) ==
    /\ At(r, "new") /\ Admits /\ lock = Nobody /\ deaths < cast.deaths
    /\ lock' = r /\ Goes(r, "done", FALSE) /\ deaths' = deaths + 1
    /\ UNCHANGED <<cast, conn, loop, reaper, lapses, status, turn, lapsed, charged>>

\* 409, or the stored answer
BeginRefused(r) ==
    /\ At(r, "new") /\ ~(Admits /\ lock = Nobody)
    /\ Goes(r, "done", FALSE)
    /\ AgentOnly /\ UNCHANGED <<status, lock, turn, lapsed, charged>>

\* phase 2, no transaction open: the model answers, or not
Answer(r) ==
    /\ At(r, "calling")
    /\ Goes(r, "renewing", FALSE) \/ Goes(r, "failing", FALSE)
    /\ AgentOnly /\ UNCHANGED <<status, lock, turn, lapsed, charged>>

Relock(r) == lock' = IF Lockable(r) THEN r ELSE lock

\* the except branch of phase 2: the receipt is given back, and the resident if it is ours
Fails(r) ==
    /\ At(r, "failing") /\ Holds(r)
    /\ Relock(r)
    /\ status' = IF Lockable(r) THEN "idle" ELSE status
    /\ turn' = [turn EXCEPT !.token = Nobody, !.live = FALSE]
    /\ Goes(r, IF Lockable(r) THEN "unlocking" ELSE "done", FALSE)
    /\ AgentOnly /\ UNCHANGED <<lapsed, charged>>

\* superseded, or Redis did not answer: rolled back
FailsLate(r) ==
    /\ At(r, "failing")
    /\ Goes(r, "done", FALSE)
    /\ AgentOnly /\ UNCHANGED <<status, lock, turn, lapsed, charged>>

\* phase 3 begins with the lock ...
Renew(r) ==
    /\ At(r, "renewing")
    /\ Relock(r)
    /\ Goes(r, "finalizing", Lockable(r))
    /\ lapsed' = IF lock = Nobody THEN lapsed \ {r} ELSE lapsed
    /\ AgentOnly /\ UNCHANGED <<status, turn, charged>>

LeaseValid(r) == req[r].own /\ turn.token = r /\ turn.live
Ends(st) == turn' = [status |-> st, token |-> Nobody, live |-> FALSE]

\* ... and then, under the row locks, charges and completes the turn, or fails it: the
\* agent has moved on or cannot pay
Finalize(r) ==
    /\ At(r, "finalizing") /\ turn.status # "completed" /\ LeaseValid(r)
    /\ \/ Ends("completed") /\ charged' = charged + 1
       \/ Ends("failed") /\ UNCHANGED charged
    /\ status' = "idle"
    /\ Goes(r, "unlocking", FALSE)
    /\ AgentOnly /\ UNCHANGED <<lock, lapsed>>

\* turn_lease_lost: only a lock of our own authorizes a reset of the status
FinalizeLost(r) ==
    /\ At(r, "finalizing") /\ turn.status # "completed" /\ ~LeaseValid(r)
    /\ turn' = IF turn.token = r THEN [turn EXCEPT !.token = Nobody, !.live = FALSE] ELSE turn
    /\ status' = IF req[r].own THEN "idle" ELSE status
    /\ Goes(r, IF req[r].own THEN "unlocking" ELSE "done", FALSE)
    /\ AgentOnly /\ UNCHANGED <<lock, lapsed, charged>>

\* another request completed it: the stored answer
FinalizeReplays(r) ==
    /\ At(r, "finalizing") /\ turn.status = "completed"
    /\ IF req[r].own THEN Unlock(r) ELSE UNCHANGED lock
    /\ Goes(r, "done", FALSE)
    /\ AgentOnly /\ UNCHANGED <<status, turn, lapsed, charged>>

\* release_npc_chat_lock_and_notify
Release(r) ==
    /\ At(r, "unlocking")
    /\ Unlock(r) /\ Goes(r, "done", FALSE)
    /\ AgentOnly /\ UNCHANGED <<status, turn, lapsed, charged>>

RequestDies(r) ==
    /\ r \in cast.requests /\ req[r].pc \notin {"new", "done"} /\ deaths < cast.deaths
    /\ Goes(r, "done", FALSE) /\ deaths' = deaths + 1
    /\ UNCHANGED <<cast, conn, loop, reaper, lapses, status, lock, turn, lapsed, charged>>

-----------------------------------------------------------------------------
(* What runs by itself *)

Others == UNCHANGED <<cast, conn, req, charged, deaths>>

\* recover_expired_npc_chat_turns: under the row locks, and only with the old token's lock
Reap ==
    /\ Pending /\ turn.token # Nobody /\ ~turn.live /\ reaper = Nobody
    /\ LET own == Lockable(turn.token)
       IN  /\ Relock(turn.token)
           /\ status' = IF own /\ status = "chatting" THEN "idle" ELSE status
           /\ reaper' = IF own THEN turn.token ELSE Nobody
    /\ turn' = [turn EXCEPT !.token = Nobody]
    /\ Others /\ UNCHANGED <<loop, lapsed, lapses>>

ReaperReleases ==
    /\ reaper # Nobody
    /\ Unlock(reaper)
    /\ reaper' = Nobody
    /\ Others /\ UNCHANGED <<status, turn, loop, lapsed, lapses>>

\* the resident loop comes to the resident: it skips one who is engaged, if configured
Look ==
    /\ loop = "off" /\ status # "sleeping"
    /\ ~(cast.skip /\ status = "socializing")
    /\ loop' = IF cast.skip /\ status = "chatting" THEN "probing" ELSE "ticking"
    /\ Others /\ UNCHANGED <<status, lock, turn, reaper, lapsed, lapses>>

\* Mutant: the test is the wrong way round
MutProbe ==
    /\ loop = "probing"
    /\ loop' = IF lock = Nobody THEN "off" ELSE "healing"
    /\ Others /\ UNCHANGED <<status, lock, turn, reaper, lapsed, lapses>>

\* status "chatting" without a lock is a chat that ended without a reset ...
Probe ==
    /\ loop = "probing"
    /\ loop' = IF lock = Nobody THEN "healing" ELSE "off"
    /\ Others /\ UNCHANGED <<status, lock, turn, reaper, lapsed, lapses>>

\* ... and is healed, whatever the status is by now
Heal ==
    /\ loop = "healing"
    /\ status' = "idle" /\ loop' = "ticking"
    /\ Others /\ UNCHANGED <<lock, turn, reaper, lapsed, lapses>>

\* the tick moves the resident or sends it to sleep, begins a chat with another one, or neither
Tick ==
    /\ loop = "ticking"
    /\ \/ status' \in {status, "idle", "sleeping"} /\ loop' = "off"
       \/ status' = "socializing" /\ loop' = "social"
    /\ Others /\ UNCHANGED <<lock, turn, reaper, lapsed, lapses>>

\* _metabolize_sleepers, at the head of each round
Wake ==
    /\ loop = "off" /\ status = "sleeping"
    /\ status' = "idle"
    /\ Others /\ UNCHANGED <<lock, turn, loop, reaper, lapsed, lapses>>

SocialEnds ==
    /\ loop = "social"
    /\ status' = "idle" /\ loop' = "off"
    /\ Others /\ UNCHANGED <<lock, turn, reaper, lapsed, lapses>>

\* the loop's process dies in a social chat
SocialDies ==
    /\ loop = "social" /\ deaths < cast.deaths
    /\ loop' = "off" /\ deaths' = deaths + 1
    /\ UNCHANGED <<cast, conn, agent, status, lock, reaper, lapsed, lapses>>

\* recover_stale_socializing: the stamp is old, because its writer died or is slow
Recover ==
    /\ status = "socializing"
    /\ status' = "idle"
    /\ Others /\ UNCHANGED <<lock, turn, loop, reaper, lapsed, lapses>>

-----------------------------------------------------------------------------
(* Time *)

Talks(c) == /\ c \in cast.conns
            /\ conn[c].pc = "opening" \/ (conn[c].talking /\ conn[c].pc \in {"idle", "locking"})
Works(r) == r \in cast.requests /\ req[r].pc \in {"calling", "renewing", "finalizing"}
Engaged == (\E c \in Conns : Talks(c)) \/ (\E r \in Requests : Works(r))

\* CHAT_LOCK_TTL under a talk that lasts too long: no message renews it
LockLapses ==
    /\ lock # Nobody /\ lapses < cast.lapses
    /\ lapsed' = lapsed \cup {c \in Conns : Talks(c) /\ User(c) = lock}
                        \cup ({lock} \cap {r \in Requests : Works(r)})
    /\ lock' = Nobody /\ lapses' = lapses + 1
    /\ Others /\ UNCHANGED <<status, turn, loop, reaper>>

\* the same for a key that nobody's talk needs
OrphanLapses ==
    /\ lock # Nobody /\ ~\E c \in Conns : Talks(c) /\ User(c) = lock
    /\ ~\E r \in Requests : Works(r) /\ r = lock
    /\ lock' = Nobody
    /\ Others /\ UNCHANGED <<status, turn, loop, reaper, lapsed, lapses>>

\* NPC_CHAT_LEASE_SECONDS, which outlives the model call unless its process is stopped
LeaseLapses ==
    /\ turn.live
    /\ IF \E r \in Requests : Works(r) /\ r = turn.token
       THEN lapses < cast.lapses /\ lapses' = lapses + 1
       ELSE UNCHANGED lapses
    /\ turn' = [turn EXCEPT !.live = FALSE]
    /\ Others /\ UNCHANGED <<status, lock, loop, reaper, lapsed>>

-----------------------------------------------------------------------------
HumanNext ==
    \E c \in Conns :
        \/ StartReads(c) \/ StartLocks(c) \/ StartCommits(c) \/ StartRefused(c)
        \/ EndCommits(c) \/ EndUnlocks(c) \/ EndForgets(c)
        \/ Drop(c) \/ CleanupResets(c) \/ Leave(c) \/ WorkerDies(c)
RequestStep(r) ==
    \/ Begin(r) \/ BeginDies(r) \/ BeginRefused(r) \/ Answer(r) \/ Fails(r) \/ FailsLate(r)
    \/ Renew(r) \/ Finalize(r) \/ FinalizeLost(r) \/ FinalizeReplays(r) \/ Release(r)
    \/ RequestDies(r)
ReaperNext == Reap \/ ReaperReleases
LoopNext == Look \/ Probe \/ Heal \/ Tick \/ Wake \/ SocialEnds \/ SocialDies
Next == \/ HumanNext \/ (\E r \in Requests : RequestStep(r)) \/ ReaperNext \/ LoopNext
        \/ Recover \/ LockLapses \/ OrphanLapses \/ LeaseLapses

Spec == Init /\ [][Next]_vars

\* The reaper, the loop and the sweep come round again and again; a key with a TTL goes
FairSpec == /\ Spec
            /\ WF_vars(ReaperNext) /\ WF_vars(Recover) /\ WF_vars(OrphanLapses)
            /\ WF_vars(LeaseLapses) /\ WF_vars(Look) /\ WF_vars(Probe) /\ WF_vars(Heal)
            /\ WF_vars(Tick) /\ WF_vars(SocialEnds)
            /\ \A r \in Requests : WF_vars(RequestStep(r))

-----------------------------------------------------------------------------
(* Properties *)

ConnType == [pc : {"idle", "locking", "opening", "unlocking", "forgetting", "resetting", "leaving"},
             talking : BOOLEAN, read : {"idle", "sleeping", "socializing", "chatting"},
             starts : 0 .. cast.starts]
TurnType == [status : {"none", "pending", "completed", "failed"},
             token : Requests \cup {Nobody}, live : BOOLEAN]
ReqType == [pc : {"new", "calling", "failing", "renewing", "finalizing", "unlocking", "done"},
            own : BOOLEAN]

\* The row, the lock, the receipt and every socket and request keep the values the code
\* gives them, and no faults but those of the company happen.
TypeOK ==
    /\ cast \in Casts
    /\ status \in {"idle", "chatting", "sleeping", "socializing"}
    /\ lock \in Users \cup Requests \cup {Nobody}
    /\ conn \in [Conns -> ConnType] /\ turn \in TurnType /\ req \in [Requests -> ReqType]
    /\ loop \in {"off", "probing", "healing", "ticking", "social"}
    /\ reaper \in Requests \cup {Nobody}
    /\ lapsed \subseteq Conns \cup Requests
    /\ charged \in Nat /\ lapses \in 0 .. cast.lapses /\ deaths \in 0 .. cast.deaths

\* Nobody's lock is taken from under a talk: whatever others start, end, drop, finalize or
\* reap, a socket in chat has the lock until that lapses or its user starts again and is
\* refused, and so has a request that still owns its receipt.  (One socket per user: two tabs
\* of one user share the key.)
OneSocketEach == \A c, d \in cast.conns : User(c) = User(d) => c = d
HolderKeepsLock ==
    OneSocketEach =>
        /\ \A c \in Conns : Talks(c) /\ c \notin lapsed => lock = User(c)
        /\ \A r \in Requests : Works(r) /\ turn.token = r /\ turn.live /\ r \notin lapsed => lock = r

\* However often a turn is sent, resumed, reaped or overtaken, it is paid for once, and only
\* together with its answer
TurnChargedOnce == charged = IF turn.status = "completed" THEN 1 ELSE 0

\* A resident marked as chatting or socializing while nobody talks to it becomes available
\* again, whoever died
StatusRecovers == cast.skip => []<>(status \in {"chatting", "socializing"} => Engaged \/ loop = "social")
=============================================================================
