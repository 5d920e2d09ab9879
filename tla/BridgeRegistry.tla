--------------------------- MODULE BridgeRegistry ---------------------------
(***************************************************************************)
(* The capability bridge's registry of one app: the tools it serves, the   *)
(* URL it is called at and the topics it listens to, in memory and written *)
(* through to Redis, from which a restarted bridge hydrates its memory.    *)
(* Tool names carry the app's id as a prefix, so apps share no entry.      *)
(*                                                                         *)
(* Redis executes a pipeline that is no transaction: command by command,   *)
(* other clients in between, and only a prefix of it when the connection   *)
(* breaks or the bridge dies.                                              *)
(*                                                                         *)
(* hpc[h] names where handler h of POST /v1/register is: idle, index       *)
(* (SMEMBERS of the app's tools), tools (the pipeline of store.register),  *)
(* subindex, subs (the same for store.subscribe), callbacks, memtools,     *)
(* memsubs (the locks of the memory registry), token (SET of a new token), *)
(* left (dropped, because its client left; Redis goes on with its pipeline *)
(* all the same).                                                          *)
(***************************************************************************)
EXTENDS Naturals, Sequences, FiniteSets, SequencesExt

CONSTANTS
  Tool, Url, Topic,
  Request,          \* the bodies apps send, all of them valid
  Handler,          \* requests the bridge handles concurrently
  None,
  MaxRegistrations, \* bound: requests ever sent
  MaxFailures       \* bound: crashes of the bridge and failing Redis operations

ASSUME RequestAssumption ==
  /\ IsFiniteSet(Tool) /\ IsFiniteSet(Topic)
  /\ None \notin Url \cup Request \cup Handler
  /\ Request \subseteq [tools : SUBSET Tool, url : Url, subs : (SUBSET Topic) \cup {None}]
ASSUME RegistryBoundAssumption ==
  MaxRegistrations \in Nat /\ MaxFailures \in Nat

VARIABLES
  tools,      \* bridge:tools, the URL in the entry of each tool
  callback,   \* the app's field of bridge:callbacks
  index,      \* bridge:app_tools:{app}
  subs,       \* topics whose bridge:subs:{topic} holds the app
  subIndex,   \* bridge:app_subs:{app}
  mtools, mcallback, msubs,   \* the same in memory
  up,
  hpc, request,
  pipe,       \* pipe[h]: commands of the pipeline Redis has not executed yet
  sent,       \* requests sent so far
  failed,     \* failures so far
  acked,      \* the last request answered with a token
  alone,      \* the handler of a request that no other has been handled beside, or None
  settled,    \* acked is of such a request, and none has been sent since
  restarted   \* the bridge has been restarted since

store == << tools, callback, index, subs, subIndex >>
memory == << mtools, mcallback, msubs >>
history == << sent, failed, acked, alone, settled, restarted >>
registryVars == << store, memory, up, hpc, request, pipe, history >>

OrNone(S) == S \cup {None}

Command ==
  [op : {"hset_callback"}, url : Url]
    \cup [op : {"hset_tool"}, tool : Tool, url : Url]
    \cup [op : {"hdel_tool", "sadd_index"}, tool : Tool]
    \cup [op : {"srem_sub", "sadd_sub", "sadd_subindex"}, topic : Topic]
    \cup [op : {"del_index", "del_subindex"}]

Storing == {"index", "tools", "subindex", "subs"}
HandlerPC == Storing \cup {"idle", "callbacks", "memtools", "memsubs", "token", "left"}

RegistryTypeOK ==
  /\ tools \in [Tool -> OrNone(Url)] /\ mtools \in [Tool -> OrNone(Url)]
  /\ callback \in OrNone(Url) /\ mcallback \in OrNone(Url)
  /\ index \subseteq Tool
  /\ subs \subseteq Topic /\ subIndex \subseteq Topic /\ msubs \subseteq Topic
  /\ up \in BOOLEAN /\ restarted \in BOOLEAN
  /\ hpc \in [Handler -> HandlerPC]
  /\ request \in [Handler -> OrNone(Request)]
  /\ pipe \in [Handler -> Seq(Command)]
  /\ \A h \in Handler :
       /\ hpc[h] = "idle" <=> request[h] = None
       /\ pipe[h] # << >> => hpc[h] \in {"tools", "subs", "left"}
  /\ sent \in 0 .. MaxRegistrations /\ failed \in 0 .. MaxFailures
  /\ acked \in OrNone(Request)
  /\ alone \in OrNone(Handler) /\ settled \in BOOLEAN

RegistryInit ==
  /\ tools = [t \in Tool |-> None] /\ callback = None
  /\ index = {} /\ subs = {} /\ subIndex = {}
  /\ mtools = [t \in Tool |-> None] /\ mcallback = None /\ msubs = {}
  /\ up = TRUE
  /\ hpc = [h \in Handler |-> "idle"]
  /\ request = [h \in Handler |-> None]
  /\ pipe = [h \in Handler |-> << >>]
  /\ sent = 0 /\ failed = 0
  /\ acked = None /\ alone = None /\ settled = FALSE /\ restarted = FALSE

HandlerGoto(h, from, to) ==
  /\ hpc[h] = from
  /\ hpc' = [hpc EXCEPT ![h] = to]

-----------------------------------------------------------------------------
(* The pipelines.                                                          *)

\* The commands f[x] of the elements x of a set, in some order.
ForEach(S, f) == LET s == SetToSeq(S) IN [i \in 1 .. Len(s) |-> f[s[i]]]

\* The commands f[x] and g[x], in pairs.
ForEachPair(S, f, g) ==
  LET s == SetToSeq(S)
  IN [i \in 1 .. 2 * Len(s) |-> IF i % 2 = 1 THEN f[s[(i + 1) \div 2]] ELSE g[s[i \div 2]]]

RegisterPipe(r, old) ==
  << [op |-> "hset_callback", url |-> r.url] >>
    \o ForEach(old, [t \in Tool |-> [op |-> "hdel_tool", tool |-> t]])
    \o << [op |-> "del_index"] >>
    \o ForEachPair(r.tools, [t \in Tool |-> [op |-> "hset_tool", tool |-> t, url |-> r.url]],
                            [t \in Tool |-> [op |-> "sadd_index", tool |-> t]])

SubscribePipe(r, old) ==
  ForEach(old, [t \in Topic |-> [op |-> "srem_sub", topic |-> t]])
    \o << [op |-> "del_subindex"] >>
    \o ForEachPair(r.subs, [t \in Topic |-> [op |-> "sadd_sub", topic |-> t]],
                           [t \in Topic |-> [op |-> "sadd_subindex", topic |-> t]])

\* What Redis does with a command.
Execute(c) ==
  /\ callback' = IF c.op = "hset_callback" THEN c.url ELSE callback
  /\ tools' = CASE c.op = "hset_tool" -> [tools EXCEPT ![c.tool] = c.url]
                [] c.op = "hdel_tool" -> [tools EXCEPT ![c.tool] = None]
                [] OTHER -> tools
  /\ index' = CASE c.op = "del_index" -> {}
                [] c.op = "sadd_index" -> index \cup {c.tool}
                [] OTHER -> index
  /\ subs' = CASE c.op = "srem_sub" -> subs \ {c.topic}
               [] c.op = "sadd_sub" -> subs \cup {c.topic}
               [] OTHER -> subs
  /\ subIndex' = CASE c.op = "del_subindex" -> {}
                   [] c.op = "sadd_subindex" -> subIndex \cup {c.topic}
                   [] OTHER -> subIndex

-----------------------------------------------------------------------------
(* POST /v1/register.                                                      *)

\* The request passes the checks of its tool names and its URL.
ReceiveRegister(h, r) ==
  /\ up
  /\ sent < MaxRegistrations
  /\ HandlerGoto(h, "idle", "index")
  /\ request' = [request EXCEPT ![h] = r]
  /\ sent' = sent + 1
  /\ alone' = IF \A g \in Handler : hpc[g] = "idle" THEN h ELSE None
  /\ settled' = FALSE
  /\ UNCHANGED << store, memory, up, pipe, failed, acked, restarted >>

ReadToolIndex(h) ==
  /\ HandlerGoto(h, "index", "tools")
  /\ pipe' = [pipe EXCEPT ![h] = RegisterPipe(request[h], index)]
  /\ UNCHANGED << store, memory, up, request, history >>

StoreCommand(h) ==
  /\ pipe[h] # << >>
  /\ Execute(Head(pipe[h]))
  /\ pipe' = [pipe EXCEPT ![h] = Tail(@)]
  /\ UNCHANGED << memory, up, hpc, request, history >>

\* The reply of store.register arrives.
ToolsStored(h) ==
  /\ pipe[h] = << >>
  /\ HandlerGoto(h, "tools", IF request[h].subs = None THEN "callbacks" ELSE "subindex")
  /\ UNCHANGED << store, memory, up, request, pipe, history >>

ReadSubIndex(h) ==
  /\ HandlerGoto(h, "subindex", "subs")
  /\ pipe' = [pipe EXCEPT ![h] = SubscribePipe(request[h], subIndex)]
  /\ UNCHANGED << store, memory, up, request, history >>

SubsStored(h) ==
  /\ pipe[h] = << >>
  /\ HandlerGoto(h, "subs", "callbacks")
  /\ UNCHANGED << store, memory, up, request, pipe, history >>

\* registry.register takes two locks, one after the other.
InsertCallback(h) ==
  /\ HandlerGoto(h, "callbacks", "memtools")
  /\ mcallback' = request[h].url
  /\ UNCHANGED << store, mtools, msubs, up, request, pipe, history >>

\* Mutant: the app's previous tools are not removed first.
InsertToolsOnly(h) ==
  /\ HandlerGoto(h, "memtools", IF request[h].subs = None THEN "token" ELSE "memsubs")
  /\ mtools' = [t \in Tool |-> IF t \in request[h].tools THEN request[h].url ELSE mtools[t]]
  /\ UNCHANGED << store, mcallback, msubs, up, request, pipe, history >>

ReplaceTools(h) ==
  /\ HandlerGoto(h, "memtools", IF request[h].subs = None THEN "token" ELSE "memsubs")
  /\ mtools' = [t \in Tool |-> IF t \in request[h].tools THEN request[h].url ELSE None]
  /\ UNCHANGED << store, mcallback, msubs, up, request, pipe, history >>

ReplaceSubs(h) ==
  /\ HandlerGoto(h, "memsubs", "token")
  /\ msubs' = request[h].subs
  /\ UNCHANGED << store, mtools, mcallback, up, request, pipe, history >>

\* Mutant: a connection goes back to the pool with commands it has not sent.
FinishWithoutFlush(h) ==
  /\ hpc' = [hpc EXCEPT ![h] = "idle"]
  /\ request' = [request EXCEPT ![h] = None]
  /\ alone' = None
  /\ UNCHANGED pipe

\* The handler answers and forgets the request.
Finish(h) ==
  /\ hpc' = [hpc EXCEPT ![h] = "idle"]
  /\ request' = [request EXCEPT ![h] = None]
  /\ pipe' = [pipe EXCEPT ![h] = << >>]
  /\ alone' = None

\* The token is stored, and the app is answered with it.
StoreToken(h) ==
  /\ hpc[h] = "token"
  /\ Finish(h)
  /\ acked' = request[h]
  /\ settled' = (alone = h)
  /\ restarted' = FALSE
  /\ UNCHANGED << store, memory, up, sent, failed >>

\* Mutant: an error of the store is logged, and the memory updated all the same.
RegisterFailsOpen(h) ==
  /\ hpc[h] \in Storing
  /\ failed < MaxFailures
  /\ failed' = failed + 1
  /\ hpc' = [hpc EXCEPT ![h] = "callbacks"]
  /\ pipe' = [pipe EXCEPT ![h] = << >>]
  /\ UNCHANGED << store, memory, up, request, sent, acked, alone, settled, restarted >>

\* The pool has no connection, or the connection breaks: the app gets a 500, and
\* what is left of the pipeline is not executed.
RegisterFails(h) ==
  /\ hpc[h] \in Storing \cup {"token", "left"}
  /\ failed < MaxFailures
  /\ failed' = failed + 1
  /\ Finish(h)
  /\ UNCHANGED << store, memory, up, sent, acked, settled, restarted >>

\* The client closes its connection: the handler is dropped at the await it is at,
\* and nobody reads the reply to what it has sent.
ClientLeaves(h) ==
  /\ hpc[h] \in Storing \cup {"token"}
  /\ IF pipe[h] = << >> THEN Finish(h)
     ELSE /\ hpc' = [hpc EXCEPT ![h] = "left"]
          /\ alone' = None
          /\ UNCHANGED << request, pipe >>
  /\ UNCHANGED << store, memory, up, sent, failed, acked, settled, restarted >>

\* Redis is through with the pipeline of a dropped handler.
LeftBehindEnds(h) ==
  /\ hpc[h] = "left" /\ pipe[h] = << >>
  /\ Finish(h)
  /\ UNCHANGED << store, memory, up, sent, failed, acked, settled, restarted >>

CrashBridge ==
  /\ up
  /\ failed < MaxFailures
  /\ failed' = failed + 1
  /\ up' = FALSE
  /\ mtools' = [t \in Tool |-> None] /\ mcallback' = None /\ msubs' = {}
  /\ hpc' = [h \in Handler |-> "idle"]
  /\ request' = [h \in Handler |-> None]
  /\ pipe' = [h \in Handler |-> << >>]
  /\ alone' = None
  /\ restarted' = TRUE
  /\ UNCHANGED << store, sent, acked, settled >>

\* Mutant: the callbacks are not part of the hydrated state.
HydratedToolsOnly == [tools |-> tools, callbacks |-> None, subscriptions |-> subs]

\* What store.hydrate loads.
HydratedState == [tools |-> tools, callbacks |-> callback, subscriptions |-> subs]

\* main: the memory is hydrated before the first request is accepted.
Hydrate ==
  /\ ~up
  /\ up' = TRUE
  /\ mtools' = HydratedState.tools
  /\ mcallback' = HydratedState.callbacks
  /\ msubs' = HydratedState.subscriptions
  /\ UNCHANGED << store, hpc, request, pipe, history >>

RegistryNext ==
  \/ CrashBridge \/ Hydrate
  \/ \E h \in Handler :
       \/ \E r \in Request : ReceiveRegister(h, r)
       \/ ReadToolIndex(h) \/ StoreCommand(h) \/ ToolsStored(h)
       \/ ReadSubIndex(h) \/ SubsStored(h)
       \/ InsertCallback(h) \/ ReplaceTools(h) \/ ReplaceSubs(h)
       \/ StoreToken(h) \/ RegisterFails(h) \/ ClientLeaves(h) \/ LeftBehindEnds(h)

RegistrySpec == RegistryInit /\ [][RegistryNext]_registryVars

-----------------------------------------------------------------------------
(* What the bridge does for its callers.                                   *)

\* The URL handle_execute calls for a tool, or None: "tool not found".
Callee(t) == mtools[t]

\* Where handle_publish sends the app an event of a topic, if it does.
Subscriber(topic) == IF topic \in msubs THEN mcallback ELSE None

\* handle_app_info.
AppInfo == mcallback

-----------------------------------------------------------------------------
\* handle_execute finds every tool of the app's last registration and calls it at the
\* registration's URL, and handle_publish sends the app the events of its topics: also
\* after restarts, and whatever failed, or met, before it.  Until the bridge is restarted, it
\* serves nothing else: no tool or topic of an earlier registration, not even of one that
\* failed half way.  The last registration is one that was acknowledged, that no other was
\* handled beside, and since which none has been sent; one whose client has left is handled
\* until Redis is through with its pipeline.
RegistrationIsServed ==
  up /\ settled =>
    /\ \A t \in acked.tools : Callee(t) = acked.url
    /\ acked.subs # None => \A topic \in acked.subs : Subscriber(topic) = acked.url
    /\ AppInfo = acked.url
    /\ ~restarted =>
         /\ \A t \in Tool \ acked.tools : Callee(t) = None
         /\ acked.subs # None => \A topic \in Topic \ acked.subs : Subscriber(topic) = None

\* "Store writes first": nothing is served that is not persisted, so no call the
\* memory accepts is refused after a crash of the bridge at the next moment, as long as
\* registrations don't meet.
StoreIsAhead ==
  [][ up /\ up' /\ memory' # memory /\ alone # None =>
        /\ \A t \in Tool : mtools'[t] \notin {None, mtools[t]} => tools[t] = mtools'[t]
        /\ mcallback' # mcallback => callback = mcallback'
        /\ msubs' \ msubs \subseteq subs ]_registryVars

\* "Re-registration replaces all previous tools for that app atomically": what is
\* persisted for an app is its last registration.
RegistrationReplacesTools ==
  settled => { t \in Tool : tools[t] # None } = acked.tools
=============================================================================
