------------------------------- MODULE Callouts -------------------------------
(***************************************************************************)
(* Callouts to compute members.  A compute member connects to a node with  *)
(* a gRPC stream (internal/grpc/members.go, streaming.go); a callout is a  *)
(* processor, criterion or schedule function the workflow engine asks a    *)
(* member to run (internal/grpc/dispatch.go).  A node without a matching   *)
(* member forwards the callout to a peer that gossips one                  *)
(* (internal/cluster/dispatch), and a running callout may call back into   *)
(* its transaction through any node (internal/cluster/proxy, token,        *)
(* internal/grpc/txroute_interceptor.go).                                  *)
(*                                                                         *)
(* All streams serve one tenant and overlap the tags of every callout, so  *)
(* a node's tags are whether it has a member.  A stream is one connection: *)
(* its member ID is a fresh UUID, a reconnecting client is another stream. *)
(* Timers are steps that may happen at any time: a deadline can precede    *)
(* any answer.                                                             *)
(***************************************************************************)
EXTENDS Naturals, FiniteSets

CONSTANTS
  Nodes,      \* the nodes of the cluster
  Streams,    \* the connections compute members may open
  Callouts,   \* the callouts the engine may make
  None,       \* no stream, no node
  Setup       \* deployments: where each stream connects, who makes each callout,
              \* and how many faults may happen (frozen members, receive errors,
              \* lost forwards, failed publishes, cancelled requests)

VARIABLES
  home,       \* [Streams -> Nodes \cup {None}]: the node a stream connects to
  origin,     \* [Callouts -> Nodes \cup {None}]: the node that owns the transaction
  phase,      \* Member per stream: idle, live, closing (Evict has failed the
              \* pending requests), evicted (its channel is closed), gone
  writer,     \* writeLoop: off, greet, free, busy (holds an event), done
  item,       \* the attempt the busy writer holds
  pending,    \* Member.pendingReqs: the callouts tracked on the stream
  wire,       \* requests written to the stream and not yet run
  answering,  \* requests the compute node has run and not answered
  frozen,     \* the compute node neither reads nor sends any more
  version,    \* MemberRegistry.tagsVersion per node
  owed,       \* membership changes whose notifyChange has not taken its snapshot
  notes,      \* publish goroutines: snapshots <<version, has a member>>
  published,  \* MemberRegistry.publishedVersion
  tags,       \* what the node's gossip metadata says
  seen,       \* what the callers' gossip view says of a node
  at,         \* dispatchCalloutToMember of a callout on a node
  pc,         \* ClusterDispatcher per callout: idle, local, poll, forward, done
  peer,       \* the peer the callout is forwarded to
  tried,      \* the peers that failed
  result,     \* what the engine gets
  cancelled,  \* the request's context is done
  faults,     \* the faults that may still happen
  ran,        \* ghost: the nodes whose member ran the callout
  lost,       \* ghost: a forward of the callout failed at transport level
  failed,     \* ghost: the newest version whose publish failed
  calls       \* ghost: what became of the callout's callbacks: joined, notFound

streamVars == <<phase, writer, item, pending, wire, answering, frozen>>
tagVars == <<version, owed, notes, published, tags, seen, failed>>
callVars == <<at, pc, peer, tried, result, cancelled, ran, lost, calls>>
vars == <<home, origin, streamVars, tagVars, callVars, faults>>

Outcomes == {"none", "ok", "failed", "noMember", "gone", "timeout", "ctx", "forward"}

NoAttempt == [pc |-> "none", m |-> None, box |-> "empty", out |-> "none", cut |-> FALSE]

Clustered == Cardinality(({home[s] : s \in Streams} \cup {origin[c] : c \in Callouts}) \ {None}) > 1

(***************************************************************************)
(* The members of a node and their published tags                          *)
(***************************************************************************)
Registered(s) == phase[s] \in {"live", "closing", "evicted"}

\* computeTagsLocked: the aggregate over the members in the map, evicted or not.
HasMember(n) == \E s \in Streams : home[s] = n /\ Registered(s)

\* The map insert of Register and its version; the writer starts with the greet.
Register(s) ==
  /\ home[s] # None /\ phase[s] = "idle"
  /\ phase' = [phase EXCEPT ![s] = "live"]
  /\ writer' = [writer EXCEPT ![s] = "greet"]
  /\ version' = [version EXCEPT ![home[s]] = @ + 1]
  /\ owed' = IF Clustered THEN [owed EXCEPT ![home[s]] = @ + 1] ELSE owed
  /\ UNCHANGED <<home, origin, item, pending, wire, answering, frozen, notes, published, tags,
                 seen, failed, callVars, faults>>

\* notifyChange: version and tags are read under one lock, after the change.  Without
\* a cluster there is no onChange and nothing to publish.
notifyChange(n) ==
  /\ owed[n] > 0
  /\ owed' = [owed EXCEPT ![n] = @ - 1]
  /\ notes' = [notes EXCEPT ![n] = @ \cup {<<version[n], HasMember(n)>>}]
  /\ UNCHANGED <<home, origin, streamVars, version, published, tags, seen, failed,
                 callVars, faults>>

Newer(n, v) == v > published[n]

\* The publish goroutine: older snapshots are dropped, a failed publish is not
\* recorded and not repeated, though UpdateTags may have set the metadata by then.
Publish(n) ==
  \E note \in notes[n] :
    /\ notes' = [notes EXCEPT ![n] = @ \ {note}]
    /\ \/ ~Newer(n, note[1]) /\ UNCHANGED <<published, tags, failed, faults>>
       \/ /\ Newer(n, note[1])
          /\ tags' = [tags EXCEPT ![n] = note[2]]
          /\ published' = [published EXCEPT ![n] = note[1]]
          /\ UNCHANGED <<failed, faults>>
       \/ /\ Newer(n, note[1]) /\ faults > 0
          /\ faults' = faults - 1
          /\ failed' = [failed EXCEPT ![n] = IF note[1] > @ THEN note[1] ELSE @]
          /\ tags' \in {tags, [tags EXCEPT ![n] = note[2]]}
          /\ UNCHANGED published
    /\ UNCHANGED <<home, origin, streamVars, version, owed, seen, callVars>>

\* memberlist spreads a node's metadata some time after UpdateTags.
Gossip(n) ==
  /\ seen[n] # tags[n]
  /\ seen' = [seen EXCEPT ![n] = tags[n]]
  /\ UNCHANGED <<home, origin, streamVars, version, owed, notes, published, tags, failed,
                 callVars, faults>>

(***************************************************************************)
(* Eviction                                                                *)
(***************************************************************************)
Disconnect(s) ==
  [c \in Callouts |-> [n \in Nodes |->
     IF n = home[s] /\ c \in pending[s] THEN [at[c][n] EXCEPT !.box = "gone"] ELSE at[c][n]]]

\* failAllPending: closed is set and the pending map taken under one lock, then
\* every waiter gets a Disconnected response.
failAllPending(s) ==
  /\ phase[s] = "live"
  /\ phase' = [phase EXCEPT ![s] = "closing"]
  /\ at' = Disconnect(s)
  /\ pending' = [pending EXCEPT ![s] = {}]

Evict(s) == failAllPending(s)

\* receiveLoop: the client closed the stream or it broke.
receiveLoopFails(s) ==
  /\ faults > 0 /\ faults' = faults - 1
  /\ Evict(s)
  /\ UNCHANGED <<home, origin, writer, item, wire, answering, frozen, tagVars, pc, peer, tried,
                 result, cancelled, ran, lost, calls>>

\* keepAliveLoop: nothing was received for the keep-alive timeout, or one write
\* has been in flight for that long.
keepAliveLoop(s) ==
  /\ frozen[s]
  /\ Evict(s)
  /\ UNCHANGED <<home, origin, writer, item, wire, answering, frozen, tagVars, pc, peer, tried,
                 result, cancelled, ran, lost, calls, faults>>

\* The end of Evict: close(evicted).
CloseEvicted(s) ==
  /\ phase[s] = "closing"
  /\ phase' = [phase EXCEPT ![s] = "evicted"]
  /\ UNCHANGED <<home, origin, writer, item, pending, wire, answering, frozen, tagVars, callVars,
                 faults>>

\* StartStreaming's loop sees the closed channel and returns: its deferred
\* Unregister deletes the member and its Evict is a no-op.  The stream is
\* cancelled with the handler, which ends a write stuck in it.
Unregister(s) ==
  /\ phase[s] = "evicted"
  /\ phase' = [phase EXCEPT ![s] = "gone"]
  /\ version' = [version EXCEPT ![home[s]] = @ + 1]
  /\ owed' = IF Clustered THEN [owed EXCEPT ![home[s]] = @ + 1] ELSE owed
  /\ UNCHANGED <<home, origin, writer, item, pending, wire, answering, frozen, notes, published,
                 tags, seen, failed, callVars, faults>>

(***************************************************************************)
(* The writer and the compute node                                         *)
(***************************************************************************)
CtxDone(c, n) == at[c][n].cut \/ at[c][n].pc = "done"

\* write returned nil: the greet, a ping or a request is on the stream.  A frozen
\* consumer's window may take it too.
write(s) ==
  /\ phase[s] # "gone"
  /\ \/ writer[s] = "greet" /\ UNCHANGED <<wire, item>>
     \/ /\ writer[s] = "busy"
        /\ wire' = [wire EXCEPT ![s] = @ \cup {item[s]}]
        /\ item' = [item EXCEPT ![s] = None]
  /\ writer' = [writer EXCEPT ![s] = "free"]
  /\ UNCHANGED <<home, origin, phase, pending, answering, frozen, tagVars, callVars, faults>>

\* write failed: the stream is broken or was cancelled.
writeFails(s) ==
  /\ writer[s] \in {"greet", "busy"}
  /\ \/ phase[s] = "gone" /\ UNCHANGED <<phase, at, pending, faults>>
     \/ phase[s] \in {"closing", "evicted"} /\ UNCHANGED <<phase, at, pending, faults>>
     \/ faults > 0 /\ faults' = faults - 1 /\ Evict(s)
  /\ writer' = [writer EXCEPT ![s] = "done"]
  /\ item' = [item EXCEPT ![s] = None]
  /\ UNCHANGED <<home, origin, wire, answering, frozen, tagVars, pc, peer, tried, result,
                 cancelled, ran, lost, calls>>

\* keepAliveLoop's ping: TrySend, only if the writer takes it at once.
TrySend(s) ==
  /\ phase[s] = "live" /\ writer[s] = "free"
  /\ writer' = [writer EXCEPT ![s] = "greet"]
  /\ UNCHANGED <<home, origin, phase, item, pending, wire, answering, frozen, tagVars, callVars,
                 faults>>

\* An item whose caller gave up before the writer looked at it is not written.
SkipItem(s) ==
  /\ writer[s] = "busy" /\ CtxDone(item[s], home[s])
  /\ writer' = [writer EXCEPT ![s] = "free"]
  /\ item' = [item EXCEPT ![s] = None]
  /\ UNCHANGED <<home, origin, phase, pending, wire, answering, frozen, tagVars, callVars, faults>>

writeLoopExit(s) ==
  /\ writer[s] = "free" /\ phase[s] \in {"evicted", "gone"}
  /\ writer' = [writer EXCEPT ![s] = "done"]
  /\ UNCHANGED <<home, origin, phase, item, pending, wire, answering, frozen, tagVars, callVars,
                 faults>>

\* The compute node takes a request off the stream and runs it.
Compute(s) ==
  \E c \in wire[s] :
    /\ ~frozen[s]
    /\ wire' = [wire EXCEPT ![s] = @ \ {c}]
    /\ answering' = [answering EXCEPT ![s] = @ \cup {c}]
    /\ ran' = [ran EXCEPT ![c] = @ \cup {home[s]}]
    /\ UNCHANGED <<home, origin, phase, writer, item, pending, frozen, tagVars, at, pc, peer, tried,
                   result, cancelled, lost, calls, faults>>

\* CompleteRequest: only a request that is still tracked gets the response.
CompleteRequest(s, c, box) ==
  IF c \in pending[s]
  THEN /\ pending' = [pending EXCEPT ![s] = @ \ {c}]
       /\ at' = [at EXCEPT ![c][home[s]].box = box]
  ELSE UNCHANGED <<pending, at>>

\* The compute node's response comes in while the stream handler still reads it:
\* handleProcessorResponse, handleCriteriaResponse, handleFunctionResponse.
Respond(s) ==
  \E c \in answering[s], box \in {"ok", "failed"} :
    /\ ~frozen[s] /\ phase[s] \in {"live", "closing"}
    /\ answering' = [answering EXCEPT ![s] = @ \ {c}]
    /\ CompleteRequest(s, c, box)
    /\ UNCHANGED <<home, origin, phase, writer, item, wire, frozen, tagVars, pc, peer, tried,
                   result, cancelled, ran, lost, calls, faults>>

\* The compute node or its connection stops for good.
Freeze(s) ==
  /\ phase[s] = "live" /\ ~frozen[s] /\ faults > 0
  /\ faults' = faults - 1
  /\ frozen' = [frozen EXCEPT ![s] = TRUE]
  /\ UNCHANGED <<home, origin, phase, writer, item, pending, wire, answering, tagVars, callVars>>

(***************************************************************************)
(* One callout on one node: DispatchProcessor, DispatchCriteria,           *)
(* DispatchFunction and their common dispatchCalloutToMember               *)
(***************************************************************************)
\* Every exit abandons the tracked request: the deferred AbandonRequest.
Leave(c, n, out) ==
  /\ at' = [at EXCEPT ![c][n].pc = "done", ![c][n].out = out, ![c][n].box = "empty"]
  /\ pending' = [s \in Streams |-> IF s = at[c][n].m THEN pending[s] \ {c} ELSE pending[s]]

AttemptFrame == UNCHANGED <<home, origin, phase, wire, answering, frozen, tagVars, pc, peer, tried,
                            result, cancelled, ran, lost, calls, faults>>

\* Any member of the map may come first, one that is being evicted too.
FindByTags(c, n) ==
  /\ at[c][n].pc = "find"
  /\ \/ ~HasMember(n) /\ Leave(c, n, "noMember")
     \/ \E s \in Streams :
          /\ home[s] = n /\ Registered(s)
          /\ at' = [at EXCEPT ![c][n].pc = "chosen", ![c][n].m = s]
          /\ UNCHANGED pending
  /\ AttemptFrame /\ UNCHANGED <<writer, item>>

\* The member may have been closed since it was found.
TrackRequest(c, n) ==
  /\ at[c][n].pc = "chosen"
  /\ LET s == at[c][n].m IN
       \/ phase[s] # "live" /\ Leave(c, n, "gone")
       \/ /\ phase[s] = "live"
          /\ pending' = [pending EXCEPT ![s] = @ \cup {c}]
          /\ at' = [at EXCEPT ![c][n].pc = "tracked"]
  /\ AttemptFrame /\ UNCHANGED <<writer, item>>

\* The writer takes the request.  The sender's test of the evicted channel lies
\* before its select, so a member evicted in between may still take it.
Send(c, n) ==
  /\ at[c][n].pc = "tracked" /\ writer[at[c][n].m] = "free"
  /\ writer' = [writer EXCEPT ![at[c][n].m] = "busy"]
  /\ item' = [item EXCEPT ![at[c][n].m] = c]
  /\ at' = [at EXCEPT ![c][n].pc = "sent"]
  /\ AttemptFrame /\ UNCHANGED pending

SendEvicted(c, n) ==
  /\ at[c][n].pc = "tracked" /\ phase[at[c][n].m] \in {"evicted", "gone"}
  /\ Leave(c, n, "gone")
  /\ AttemptFrame /\ UNCHANGED <<writer, item>>

AwaitResponse(c, n) ==
  /\ at[c][n].pc = "sent" /\ at[c][n].box # "empty"
  /\ Leave(c, n, at[c][n].box)
  /\ AttemptFrame /\ UNCHANGED <<writer, item>>

\* A deadline that covers the wait for the response only.
CallCtxDoneSent(c, n) ==
  /\ at[c][n].pc = "sent"
  /\ Leave(c, n, IF at[c][n].cut THEN "ctx" ELSE "timeout")
  /\ AttemptFrame /\ UNCHANGED <<writer, item>>

\* One deadline for the hand-off and the wait, under the caller's context.
CallCtxDone(c, n) ==
  /\ at[c][n].pc \in {"tracked", "sent"}
  /\ Leave(c, n, IF at[c][n].cut THEN "ctx" ELSE "timeout")
  /\ AttemptFrame /\ UNCHANGED <<writer, item>>

(***************************************************************************)
(* ClusterDispatcher: local first, then the peers that gossip a member     *)
(***************************************************************************)
ClusterFrame == UNCHANGED <<home, origin, streamVars, tagVars, ran, calls>>

Finish(c, out) ==
  /\ pc' = [pc EXCEPT ![c] = "done"]
  /\ result' = [result EXCEPT ![c] = out]

Dispatch(c) ==
  /\ origin[c] # None /\ pc[c] = "idle"
  /\ pc' = [pc EXCEPT ![c] = "local"]
  /\ at' = [at EXCEPT ![c][origin[c]].pc = "find"]
  /\ ClusterFrame /\ UNCHANGED <<peer, tried, result, cancelled, lost, faults>>

LocalReturns(c) ==
  /\ pc[c] = "local" /\ at[c][origin[c]].pc = "done"
  /\ LET out == at[c][origin[c]].out IN
       IF out = "noMember" /\ Clustered
       THEN pc' = [pc EXCEPT ![c] = "poll"] /\ UNCHANGED result
       ELSE Finish(c, out)
  /\ ClusterFrame /\ UNCHANGED <<at, peer, tried, cancelled, lost, faults>>

findPeer(c, exclude) == {n \in Nodes \ exclude : n # origin[c] /\ seen[n]}

ForwardTo(c, n) ==
  /\ pc' = [pc EXCEPT ![c] = "forward"]
  /\ peer' = [peer EXCEPT ![c] = n]
  /\ UNCHANGED result

findPeerWithPolling(c) ==
  /\ pc[c] = "poll"
  /\ \/ \E n \in findPeer(c, tried[c]) : ForwardTo(c, n)
     \/ findPeer(c, tried[c]) = {} /\ Finish(c, "noMember") /\ UNCHANGED peer
     \/ findPeer(c, tried[c]) = {} /\ cancelled[c] /\ Finish(c, "ctx") /\ UNCHANGED peer
  /\ ClusterFrame /\ UNCHANGED <<at, tried, cancelled, lost, faults>>

\* handleCallout: the peer accepted the envelope and runs the callout locally.
handleCallout(c) ==
  /\ pc[c] = "forward" /\ at[c][peer[c]].pc = "none"
  /\ at' = [at EXCEPT ![c][peer[c]].pc = "find"]
  /\ ClusterFrame /\ UNCHANGED <<pc, peer, tried, result, cancelled, lost, faults>>

\* The next peer that has not been tried, or the last failure.
Failover(c, last) ==
  /\ tried' = [tried EXCEPT ![c] = @ \cup {peer[c]}]
  /\ LET next == findPeer(c, tried'[c]) IN
       IF cancelled[c] \/ next = {} THEN Finish(c, last) /\ UNCHANGED peer
                                    ELSE \E n \in next : ForwardTo(c, n)

\* Failing over on every retryable answer.
UnexecutedRetryable(out) == out \in {"noMember", "gone", "timeout"}

\* Only NO_COMPUTE_MEMBER_FOR_TAG says that nothing was run.
Unexecuted(out) == out = "noMember"

\* The peer's answer; its error code is reminted with the same meaning.
forwardReply(c) ==
  /\ pc[c] = "forward" /\ at[c][peer[c]].pc = "done"
  /\ LET out == at[c][peer[c]].out IN
       IF Unexecuted(out) THEN Failover(c, out)
       ELSE Finish(c, out) /\ UNCHANGED <<peer, tried>>
  /\ ClusterFrame /\ UNCHANGED <<at, cancelled, lost, faults>>

\* ForwardCallout fails: the peer is unreachable, refuses the envelope or does not
\* answer in time, or the request's context is done.  The peer's context ends
\* with the connection.
forwardError(c) ==
  /\ pc[c] = "forward"
  /\ IF cancelled[c] THEN UNCHANGED faults ELSE faults > 0 /\ faults' = faults - 1
  /\ lost' = [lost EXCEPT ![c] = @ \/ at[c][peer[c]].pc # "none"]
  /\ at' = [at EXCEPT ![c][peer[c]].cut = TRUE]
  /\ Failover(c, "forward")
  /\ ClusterFrame /\ UNCHANGED cancelled

\* The caller of the engine goes away.
Cancel(c) ==
  /\ pc[c] \in {"local", "poll", "forward"} /\ ~cancelled[c] /\ faults > 0
  /\ faults' = faults - 1
  /\ cancelled' = [cancelled EXCEPT ![c] = TRUE]
  /\ at' = [at EXCEPT ![c][origin[c]].cut = TRUE]
  /\ ClusterFrame /\ UNCHANGED <<pc, peer, tried, result, lost>>

(***************************************************************************)
(* Callbacks                                                               *)
(***************************************************************************)
\* ClusterDispatcher mints the token once, before the local-or-forward split.
mintTxToken(c) == origin[c]

\* The token in the request on node n: the one the context carries, or a fresh one
\* that names n.
resolveTxToken(c, n) == IF Clustered THEN mintTxToken(c) ELSE n

\* ResolveNodeInfo: node n serves a callback itself if the token names it and
\* forwards it to the named node otherwise.
ResolveNodeInfo(claim, n) == IF claim = n THEN n ELSE claim

\* The same for a callback that comes in over HTTP.
HTTPRouting(claim, n) == IF claim = n THEN n ELSE claim

\* JoinFromToken on a node finds the transactions of that node only.
JoinFromToken(c, n) == IF n = origin[c] THEN "joined" ELSE "notFound"

\* The code run for the callout calls back through some node while it is waited for.
Callback(s) ==
  \E c \in answering[s], n \in Nodes :
    /\ result[c] = "none"
    /\ LET claim == resolveTxToken(c, home[s]) IN
         \E node \in {ResolveNodeInfo(claim, n), HTTPRouting(claim, n)} :
           calls' = [calls EXCEPT ![c] = @ \cup {JoinFromToken(c, node)}]
    /\ UNCHANGED <<home, origin, streamVars, tagVars, at, pc, peer, tried, result, cancelled, ran,
                   lost, faults>>

(***************************************************************************)
(* Specification                                                           *)
(***************************************************************************)
Init ==
  /\ \E d \in Setup : home = d.home /\ origin = d.origin /\ faults = d.faults
  /\ phase = [s \in Streams |-> "idle"]
  /\ writer = [s \in Streams |-> "off"]
  /\ item = [s \in Streams |-> None]
  /\ pending = [s \in Streams |-> {}]
  /\ wire = [s \in Streams |-> {}]
  /\ answering = [s \in Streams |-> {}]
  /\ frozen = [s \in Streams |-> FALSE]
  /\ version = [n \in Nodes |-> 0]
  /\ owed = [n \in Nodes |-> 0]
  /\ notes = [n \in Nodes |-> {}]
  /\ published = [n \in Nodes |-> 0]
  /\ tags = [n \in Nodes |-> FALSE]
  /\ seen = [n \in Nodes |-> FALSE]
  /\ failed = [n \in Nodes |-> 0]
  /\ at = [c \in Callouts |-> [n \in Nodes |-> NoAttempt]]
  /\ pc = [c \in Callouts |-> "idle"]
  /\ peer = [c \in Callouts |-> None]
  /\ tried = [c \in Callouts |-> {}]
  /\ result = [c \in Callouts |-> "none"]
  /\ cancelled = [c \in Callouts |-> FALSE]
  /\ ran = [c \in Callouts |-> {}]
  /\ lost = [c \in Callouts |-> FALSE]
  /\ calls = [c \in Callouts |-> {}]

StreamStep(s) ==
  \/ Register(s) \/ CloseEvicted(s) \/ Unregister(s) \/ keepAliveLoop(s) \/ receiveLoopFails(s)
  \/ write(s) \/ writeFails(s) \/ SkipItem(s) \/ writeLoopExit(s) \/ TrySend(s)
  \/ Compute(s) \/ Respond(s) \/ Freeze(s) \/ Callback(s)

NodeStep(n) == notifyChange(n) \/ Publish(n) \/ Gossip(n)

AttemptStep(c, n) ==
  \/ FindByTags(c, n) \/ TrackRequest(c, n) \/ Send(c, n) \/ SendEvicted(c, n)
  \/ AwaitResponse(c, n) \/ CallCtxDone(c, n)

DispatchStep(c) ==
  \/ Dispatch(c) \/ LocalReturns(c) \/ findPeerWithPolling(c) \/ handleCallout(c)
  \/ forwardReply(c) \/ forwardError(c) \/ Cancel(c)

Next ==
  \/ \E s \in Streams : StreamStep(s)
  \/ \E n \in Nodes : NodeStep(n)
  \/ \E c \in Callouts, n \in Nodes : AttemptStep(c, n)
  \/ \E c \in Callouts : DispatchStep(c)

Spec == Init /\ [][Next]_vars

\* Goroutines run, deadlines pass, gossip spreads; compute nodes, faults and
\* cancellations owe nothing.
Fairness ==
  /\ \A s \in Streams :
       WF_vars(\/ keepAliveLoop(s) \/ CloseEvicted(s) \/ Unregister(s) \/ writeLoopExit(s)
               \/ writeFails(s) /\ phase[s] = "gone")
  /\ \A n \in Nodes : WF_vars(NodeStep(n))
  /\ \A c \in Callouts :
       WF_vars(\/ \E n \in Nodes : AttemptStep(c, n)
               \/ LocalReturns(c) \/ findPeerWithPolling(c) \/ handleCallout(c) \/ forwardReply(c))

FairSpec == Spec /\ Fairness

(***************************************************************************)
(* Properties                                                              *)
(***************************************************************************)
\* The shape of the state; a stream's writer holds a request exactly while busy.
TypeOK ==
  /\ \A s \in Streams :
       /\ phase[s] \in {"idle", "live", "closing", "evicted", "gone"}
       /\ writer[s] \in {"off", "greet", "free", "busy", "done"}
       /\ item[s] \in Callouts \cup {None} /\ (item[s] # None <=> writer[s] = "busy")
       /\ pending[s] \subseteq Callouts /\ wire[s] \subseteq Callouts
       /\ answering[s] \subseteq Callouts /\ frozen[s] \in BOOLEAN
  /\ \A n \in Nodes : version[n] \in Nat /\ published[n] <= version[n]
  /\ \A c \in Callouts :
       /\ pc[c] \in {"idle", "local", "poll", "forward", "done"}
       /\ result[c] \in Outcomes /\ (result[c] # "none" <=> pc[c] = "done")
       /\ tried[c] \subseteq Nodes \ {origin[c]} /\ ran[c] \subseteq Nodes
       /\ peer[c] \in tried[c] => pc[c] # "forward"

\* members.go (closed, failAllPending, AbandonRequest): a request is tracked on a
\* member exactly while its dispatcher waits with nothing delivered, and none is
\* tracked once the member is closed.  So a member's end is told to every waiter at
\* once, a late response reaches nobody, and no entry leaks.
PendingExact ==
  \A s \in Streams :
    /\ pending[s] = {c \in Callouts : home[s] # None /\ LET a == at[c][home[s]] IN
                       a.m = s /\ a.pc \in {"tracked", "sent"} /\ a.box = "empty"}
    /\ phase[s] # "live" => pending[s] = {}

\* members.go (publishedVersion): once no publish is under way, and unless the
\* newest one failed, a node advertises a member if and only if it has one, in
\* whatever order the publish goroutines ran.
TagsCurrent ==
  \A n \in Nodes : Clustered /\ owed[n] = 0 /\ notes[n] = {} /\ failed[n] < version[n] =>
                    tags[n] = HasMember(n)

\* cluster_dispatcher.go (forwardWithFailover): members of two nodes run one callout
\* only if a forward was lost after the peer took it, and a callout is reported as
\* without a compute member only if, but for such a loss, nothing ran it.
RunsOnce ==
  \A c \in Callouts :
    /\ Cardinality(ran[c]) > 1 => lost[c]
    /\ result[c] = "noMember" => ran[c] = {} \/ lost[c]
    /\ result[c] = "ok" => ran[c] # {}

\* dispatch.go (resolveTxToken), txroute_interceptor.go: a callback of a callout
\* that is waited for reaches its transaction from whichever node it enters.
CallbackJoins == \A c \in Callouts : "notFound" \notin calls[c]

\* The registry of members, the calls it tracks and the tags it publishes agree
\* (members.go); a callout runs where and as often as its result says, and its
\* callbacks join.
CalloutsExact == TypeOK /\ PendingExact /\ TagsCurrent /\ RunsOnce /\ CallbackJoins

\* Every dispatched callout returns to the engine, whatever members, writers and
\* peers do: one deadline covers hand-off and wait, each peer is tried once.
CalloutReturns == \A c \in Callouts : pc[c] = "local" ~> pc[c] = "done"

\* A member that stops draining its stream is evicted and leaves the registry, and
\* its writer ends.
FrozenLeaves == \A s \in Streams : frozen[s] ~> phase[s] = "gone" /\ writer[s] = "done"

\* Once members stop coming and going, every caller's view of a node agrees with its
\* registry, unless its newest publish failed.
ViewConverges ==
  \A n \in Nodes : <>[](Clustered => seen[n] = HasMember(n) \/ failed[n] = version[n])

\* Every callout returns, and the registry and every view of it come to hold the
\* members that serve.
CalloutsSettle == CalloutReturns /\ FrozenLeaves /\ ViewConverges

====
