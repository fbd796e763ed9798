---------------------------- MODULE AsyncWriter ----------------------------
(***************************************************************************)
(* audit.Writer and alert.Writer of the gateway: request handlers hand an    *)
(* entry to a bounded channel without blocking, one goroutine (Run) drains   *)
(* the channel into a batch and flushes it by size, by ticker and at         *)
(* shutdown.  The two packages differ only in Capacity and BatchSize.  The   *)
(* life cycle that main() gives them (root context, server shutdown, process *)
(* exit) is part of the module, because it decides what the last flush sees. *)
(***************************************************************************)
EXTENDS Naturals, Sequences, FiniteSets

CONSTANTS Entry,      \* the entries, one per handler call of Enqueue
          Capacity,   \* 4096 for audit.New, 2048 for alert.New
          BatchSize   \* cfg.AuditBatchSize, 32 in alert.Run

ASSUME WriterAssumption == Capacity \in Nat \ {0} /\ BatchSize \in Nat \ {0}

VARIABLES handler,    \* what became of the request that owns each entry
          ch,         \* the buffered channel
          buf,        \* Run's batch
          pc,         \* where Run is
          after,      \* where Run goes on once the flush in progress returns
          main,       \* main(): serving, in Shutdown, or gone
          cancelled,  \* rootCtx is done
          accepted,   \* history: entries the channel took, in order
          flushed,    \* history: entries handed to the flush function, in order
          stored,     \* rows of the table behind the flush function
          atCancel    \* history: how many entries the channel had taken at cancel

vars == <<handler, ch, buf, pc, after, main, cancelled, accepted, flushed,
          stored, atCancel>>

TypeOK ==
  /\ handler \in [Entry -> {"idle", "inflight", "accepted", "dropped"}]
  /\ ch \in Seq(Entry) /\ Len(ch) <= Capacity
  /\ buf \in Seq(Entry)
  /\ pc \in {"select", "drain", "flush", "done"}
  /\ after \in {"select", "done"}
  /\ main \in {"serving", "stopping", "exited"}
  /\ cancelled \in BOOLEAN
  /\ accepted \in Seq(Entry) /\ flushed \in Seq(Entry) /\ stored \in Seq(Entry)
  /\ atCancel \in Nat

Init == /\ handler = [e \in Entry |-> "idle"]
        /\ ch = <<>> /\ buf = <<>>
        /\ pc = "select" /\ after = "select"
        /\ main = "serving" /\ cancelled = FALSE
        /\ accepted = <<>> /\ flushed = <<>> /\ stored = <<>>
        /\ atCancel = 0

writerVars == <<ch, buf, pc, after, accepted, flushed, stored>>

-----------------------------------------------------------------------------
(* Request handlers *)

\* The server hands a request to a handler; Shutdown closes the listener first.
Begin(e) == /\ main = "serving" /\ handler[e] = "idle"
            /\ handler' = [handler EXCEPT ![e] = "inflight"]
            /\ UNCHANGED <<writerVars, main, cancelled, atCancel>>

\* select { case w.ch <- e: default: drop }
Enqueue(e) ==
  /\ main # "exited" /\ handler[e] = "inflight"
  /\ IF Len(ch) < Capacity
       THEN /\ ch' = Append(ch, e)
            /\ accepted' = Append(accepted, e)
            /\ handler' = [handler EXCEPT ![e] = "accepted"]
       ELSE /\ handler' = [handler EXCEPT ![e] = "dropped"]
            /\ UNCHANGED <<ch, accepted>>
  /\ UNCHANGED <<buf, pc, after, main, cancelled, flushed, stored, atCancel>>

-----------------------------------------------------------------------------
(* The Run goroutine.  Its select chooses freely among the ready cases, so a
   done context does not stop it from still taking entries or ticks. *)

\* flush() with an empty batch returns at once; otherwise the batch is written
\* while handlers go on enqueueing.
EnterFlush(batch, next) ==
  IF batch = <<>> THEN pc' = next /\ after' = after
                  ELSE pc' = "flush" /\ after' = next

Receive ==
  /\ main # "exited" /\ pc = "select" /\ ch # <<>>
  /\ buf' = Append(buf, Head(ch)) /\ ch' = Tail(ch)
  /\ IF Len(buf') >= BatchSize THEN EnterFlush(buf', "select")
                               ELSE UNCHANGED <<pc, after>>
  /\ UNCHANGED <<handler, main, cancelled, accepted, flushed, stored, atCancel>>

\* Mutant: the ticker only flushes a batch that is full.
TickFullOnly ==
  /\ main # "exited" /\ pc = "select" /\ Len(buf) >= BatchSize
  /\ EnterFlush(buf, "select")
  /\ UNCHANGED <<handler, ch, buf, main, cancelled, accepted, flushed, stored,
                 atCancel>>

Tick ==
  /\ main # "exited" /\ pc = "select" /\ buf # <<>>
  /\ EnterFlush(buf, "select")
  /\ UNCHANGED <<handler, ch, buf, main, cancelled, accepted, flushed, stored,
                 atCancel>>

\* Mutant: on cancel the batch is flushed but the channel is not drained.
SeeDoneNoDrain ==
  /\ main # "exited" /\ pc = "select" /\ cancelled
  /\ EnterFlush(buf, "done")
  /\ UNCHANGED <<handler, ch, buf, main, cancelled, accepted, flushed, stored,
                 atCancel>>

SeeDone ==
  /\ main # "exited" /\ pc = "select" /\ cancelled
  /\ pc' = "drain"
  /\ UNCHANGED <<handler, ch, buf, after, main, cancelled, accepted, flushed,
                 stored, atCancel>>

DrainOne ==
  /\ main # "exited" /\ pc = "drain" /\ ch # <<>>
  /\ buf' = Append(buf, Head(ch)) /\ ch' = Tail(ch)
  /\ UNCHANGED <<handler, pc, after, main, cancelled, accepted, flushed, stored,
                 atCancel>>

\* Mutant: the inner break leaves only the drain loop, not Run.
DrainEmptyResumes ==
  /\ main # "exited" /\ pc = "drain" /\ ch = <<>>
  /\ EnterFlush(buf, "select")
  /\ UNCHANGED <<handler, ch, buf, main, cancelled, accepted, flushed, stored,
                 atCancel>>

DrainEmpty ==
  /\ main # "exited" /\ pc = "drain" /\ ch = <<>>
  /\ EnterFlush(buf, "done")
  /\ UNCHANGED <<handler, ch, buf, main, cancelled, accepted, flushed, stored,
                 atCancel>>

\* Mutant: the batch is reset only after a successful write.
FlushReturnsRetry(ok) ==
  /\ main # "exited" /\ pc = "flush"
  /\ stored' = IF ok THEN stored \o buf ELSE stored
  /\ flushed' = flushed \o buf
  /\ buf' = IF ok THEN <<>> ELSE buf
  /\ pc' = after
  /\ UNCHANGED <<handler, ch, after, main, cancelled, accepted, atCancel>>

\* Mutant: the batch is never reset.
FlushReturnsNoReset(ok) ==
  /\ main # "exited" /\ pc = "flush"
  /\ stored' = IF ok THEN stored \o buf ELSE stored
  /\ flushed' = flushed
  /\ pc' = after
  /\ UNCHANGED <<handler, ch, buf, after, main, cancelled, accepted, atCancel>>

\* The flush function returns (ok: its rows were committed): the batch is one
\* pgx batch, written whole or not at all; after an error it is logged and
\* forgotten.
FlushReturns(ok) ==
  /\ main # "exited" /\ pc = "flush"
  /\ stored' = IF ok THEN stored \o buf ELSE stored
  /\ flushed' = flushed \o buf
  /\ buf' = <<>>
  /\ pc' = after
  /\ UNCHANGED <<handler, ch, after, main, cancelled, accepted, atCancel>>

-----------------------------------------------------------------------------
(* main() *)

\* SIGTERM, SIGINT, or stop() after a server error.
Cancel == /\ ~cancelled
          /\ cancelled' = TRUE /\ atCancel' = Len(accepted)
          /\ UNCHANGED <<handler, writerVars, main>>

\* e.Shutdown closes the listener and waits for the handlers ...
Shutdown == /\ cancelled /\ main = "serving"
            /\ main' = "stopping"
            /\ UNCHANGED <<handler, writerVars, cancelled, atCancel>>

\* ... at most ten seconds; then main returns, without waiting for Run.
Exit == /\ main = "stopping"
        /\ main' = "exited"
        /\ UNCHANGED <<handler, writerVars, cancelled, atCancel>>

-----------------------------------------------------------------------------
Writer == Receive \/ Tick \/ SeeDone \/ DrainOne \/ DrainEmpty
          \/ \E ok \in BOOLEAN : FlushReturns(ok)

Next == \/ \E e \in Entry : Begin(e) \/ Enqueue(e)
        \/ Writer
        \/ Cancel \/ Shutdown \/ Exit

\* The goroutine keeps running, the ticker keeps firing, and the select picks
\* every case that stays ready; a flush always returns (pgx fails a dead
\* connection).  Nothing forces requests to arrive or the process to stop.
Fairness == /\ WF_vars(Receive) /\ WF_vars(Tick)
            /\ WF_vars(\E ok \in BOOLEAN : FlushReturns(ok))
            /\ WF_vars(SeeDone \/ DrainOne \/ DrainEmpty)

Spec == Init /\ [][Next]_vars
FairSpec == Spec /\ Fairness

-----------------------------------------------------------------------------
(* Properties *)

\* Every entry the channel took is in exactly one place, and order is kept from
\* handler to flush: flushed, then Run's batch, then the channel, spell the
\* accepted history (Enqueue, both receive cases and flush of Run).
Conservation == accepted = flushed \o buf \o ch

\* When Run returns it has flushed at least everything that had been accepted
\* when the root context was cancelled: the drain loop leaves nothing of it
\* behind, whatever the select picked after the cancel.  (Not all that was ever
\* accepted: handlers that Shutdown still waits for may enqueue after Run ended.)
CancelFlushed == pc = "done" => Len(flushed) >= atCancel

\* Run and Enqueue implement the abstract trail: stored rows are runs of
\* accepted entries, in order, each at most once, each batch all or nothing.
Trail == INSTANCE AuditTrail WITH settled <- Len(flushed)
ImplementsTrail == Trail!Spec

Flushed(e) == \E i \in 1 .. Len(flushed) : flushed[i] = e

\* While the gateway is not being stopped, an accepted entry does not wait for
\* a full batch: the ticker sees to it that it is flushed.
EntrySettled == \A e \in Entry : handler[e] = "accepted" ~> (Flushed(e) \/ cancelled)

\* After the root context is cancelled Run returns (or the process is gone),
\* although handlers may keep the channel busy during the drain.
RunReturns == cancelled ~> (pc = "done" \/ main = "exited")
=============================================================================
