------------------------------ MODULE Analytics ------------------------------
(***************************************************************************)
(* The analytics service (services/analytics) behind the bff's beacons:    *)
(* two consumers flatten records into rows of two buffers of one Sink, and *)
(* three goroutines flush those buffers into ClickHouse (the consumers     *)
(* when a buffer holds a batch, RunFlusher on its ticker).  The mutex      *)
(* guards each step and is free while a batch is sent.  A row is the       *)
(* offset of its record.                                                   *)
(***************************************************************************)
EXTENDS Naturals, Sequences, FiniteSets, FiniteSetsExt, SequencesExt

CONSTANTS BatchSize, MaxBuffer,
          Loads,       \* bound on the records: how many of each stream go together
          MaxBeacon,   \* maxBeaconEvents
          MaxSinkFaults   \* bound on failed sends and publishes and on crashes

Streams == {"events", "clicks"}
Flushers == {"events", "clicks", "ticker", "closer"}

VARIABLES records,    \* the topics: what each record is
          taken,      \* offset each consumer has handled
          stored,     \* committed offset of each consumer group
          buf,        \* Sink.buf and Sink.clickBuf
          table,      \* how often ClickHouse holds each row
          flusher,    \* the flush each goroutine is in
          degraded,
          mode,       \* "up", or how far a shutdown has come
          incidents,  \* history: what has gone wrong so far
          lost,       \* history: rows a crash took with it whose offset was committed
          anFaults

anVars == <<records, taken, stored, buf, table, flusher, degraded, mode, incidents, lost, anFaults>>

Incidents == {"overlap", "stop_backlog", "stop_outage", "unacked", "restart"}
Idle == [todo |-> <<>>, rows |-> <<>>, sent |-> FALSE, clean |-> TRUE]
IsIdle(f) == flusher[f].todo = <<>>
Limit(s) == Max({l[s] : l \in Loads})
Fits(recs) == \E l \in Loads : \A s \in Streams : Len(recs[s]) <= l[s]

(* flatten and typeName: a record they cannot make a row of is skipped.    *)
Flattened(r) == r = "fact"

AnTypeOK ==
    /\ \A s \in Streams :
         /\ Len(records[s]) <= Limit(s) /\ stored[s] <= taken[s] /\ taken[s] <= Len(records[s])
         /\ Len(buf[s]) <= MaxBuffer
         /\ \A i \in 1..Len(buf[s]) : buf[s][i] \in 1..taken[s] /\ Flattened(records[s][buf[s][i]])
    /\ \A f \in Flushers : flusher[f].sent => flusher[f].rows # <<>>
    /\ degraded \in BOOLEAN /\ mode \in {"up", "stopping", "draining", "closing"}
    /\ incidents \subseteq Incidents /\ lost \subseteq Streams \X Nat /\ anFaults \in 0..MaxSinkFaults

(* run: Open, then the consumers start at their committed offsets.         *)
AnInit ==
    /\ records = [s \in Streams |-> <<>>] /\ taken = [s \in Streams |-> 0] /\ stored = taken
    /\ buf = [s \in Streams |-> <<>>] /\ table = [s \in Streams |-> [i \in 1..Limit(s) |-> 0]]
    /\ flusher = [f \in Flushers |-> Idle]
    /\ degraded = FALSE /\ mode = "up" /\ incidents = {} /\ lost = {} /\ anFaults = 0

AnFault == anFaults < MaxSinkFaults /\ anFaults' = anFaults + 1

-----------------------------------------------------------------------------
(* An order or payment event is published (EventBus).                      *)
FunnelEvent(kind) ==
    /\ records' = [records EXCEPT !["events"] = Append(@, kind)]
    /\ Fits(records')
    /\ UNCHANGED <<taken, stored, buf, table, flusher, degraded, mode, incidents, lost, anFaults>>

(* ingestEvents: the known events of a beacon, at most MaxBeacon long, up  *)
(* to the first that cannot be published.                                  *)
IngestEvents(beacon) ==
    LET known == Cardinality({k \in 1..Min({Len(beacon), MaxBeacon}) : Flattened(beacon[k])}) IN
    \E n \in 0..known :
        /\ records' = [records EXCEPT !["clicks"] = @ \o [k \in 1..n |-> "fact"]]
        /\ Fits(records')
        /\ IF n < known THEN AnFault ELSE UNCHANGED anFaults
        /\ UNCHANGED <<taken, stored, buf, table, flusher, degraded, mode, incidents, lost>>

-----------------------------------------------------------------------------
(* Sink.Flush: the events, then the clicks.                                *)
Flush == [Idle EXCEPT !.todo = <<"events", "clicks">>]

(* Add and AddClick: a buffer that now holds a batch is flushed before the *)
(* handler returns.                                                        *)
AddRow(s, i) ==
    /\ Len(buf[s]) < MaxBuffer
    /\ buf' = [buf EXCEPT ![s] = Append(@, i)]
    /\ flusher' = IF Len(buf[s]) + 1 >= BatchSize THEN [flusher EXCEPT ![s] = Flush] ELSE flusher
    /\ taken' = [taken EXCEPT ![s] = i]
    /\ UNCHANGED degraded

(* refuseLocked: a full buffer takes no row (ErrBufferFull); the record is *)
(* tried again (Retryable).                                                *)
Refuse(s) == Len(buf[s]) >= MaxBuffer /\ degraded' = TRUE /\ UNCHANGED <<taken, buf, flusher>>

(* Handler of either consumer, called with the next record: one that makes *)
(* no row is skipped.                                                      *)
Handle(s) ==
    LET i == taken[s] + 1 IN
    /\ mode = "up" /\ IsIdle(s) /\ i <= Len(records[s])
    /\ IF Flattened(records[s][i]) THEN AddRow(s, i) \/ Refuse(s)
       ELSE taken' = [taken EXCEPT ![s] = i] /\ UNCHANGED <<buf, flusher, degraded>>
    /\ UNCHANGED <<records, stored, table, mode, incidents, lost, anFaults>>

(* Consumer.Run commits what the handler has returned from.                *)
CommitOffsets(s) ==
    /\ mode = "up" /\ IsIdle(s) /\ stored[s] < taken[s]
    /\ stored' = [stored EXCEPT ![s] = taken[s]]
    /\ UNCHANGED <<records, taken, buf, table, flusher, degraded, mode, incidents, lost, anFaults>>

(* RunFlusher's ticker.                                                    *)
Tick ==
    /\ mode = "up" /\ IsIdle("ticker") /\ \E s \in Streams : buf[s] # <<>>
    /\ flusher' = [flusher EXCEPT !["ticker"] = Flush]
    /\ UNCHANGED <<records, taken, stored, buf, table, degraded, mode, incidents, lost, anFaults>>

(* A buffer is dealt with, or given up until the next flush; clearDegraded *)
(* runs after a flush in which nothing failed.                             *)
NextBuffer(f, ok) ==
    LET fl == flusher[f]  last == Len(fl.todo) = 1 IN
    /\ flusher' = [flusher EXCEPT ![f] =
           IF last THEN Idle ELSE [Idle EXCEPT !.todo = Tail(fl.todo), !.clean = fl.clean /\ ok]]
    /\ degraded' = IF last /\ fl.clean /\ ok THEN FALSE ELSE degraded

(* flushEvents and flushClicks, under the mutex: the oldest batch is       *)
(* copied and stays in the buffer; an empty buffer is done.                *)
Reserve(f) ==
    LET fl == flusher[f]  s == Head(fl.todo)  n == Min({Len(buf[s]), BatchSize}) IN
    /\ ~IsIdle(f) /\ fl.rows = <<>>
    /\ \/ n = 0 /\ NextBuffer(f, TRUE) /\ UNCHANGED incidents
       \/ /\ n > 0
          /\ flusher' = [flusher EXCEPT ![f].rows = SubSeq(buf[s], 1, n)]
          /\ incidents' = IF \E g \in Flushers \ {f} : flusher[g].rows # <<>> /\ Head(flusher[g].todo) = s
                          THEN incidents \cup {"overlap"} ELSE incidents
          /\ UNCHANGED degraded
    /\ UNCHANGED <<records, taken, stored, buf, table, mode, lost, anFaults>>

(* Two copies of a row are as good as more.                                *)
MaxWritten == 2
Inserted(s, rows) ==
    [table EXCEPT ![s] = [i \in DOMAIN @ |-> IF Contains(rows, i) THEN Min({@[i] + 1, MaxWritten}) ELSE @[i]]]

(* PrepareBatch, Append and Send outside the mutex.                        *)
SendBatch(f) ==
    LET fl == flusher[f]  s == Head(fl.todo) IN
    /\ fl.rows # <<>> /\ ~fl.sent
    /\ table' = Inserted(s, fl.rows)
    /\ flusher' = [flusher EXCEPT ![f].sent = TRUE]
    /\ UNCHANGED <<records, taken, stored, buf, degraded, mode, incidents, lost, anFaults>>

(* A batch fails, before or after ClickHouse has it; flushLogging logs it. *)
SendBatchFails(f) ==
    LET fl == flusher[f]  s == Head(fl.todo) IN
    /\ fl.rows # <<>> /\ ~fl.sent /\ AnFault
    /\ \E arrived \in BOOLEAN :
         /\ table' = IF arrived THEN Inserted(s, fl.rows) ELSE table
         /\ incidents' = incidents \cup {x \in {"unacked", "stop_outage"} :
                                           (x = "unacked" /\ arrived) \/ (x = "stop_outage" /\ mode # "up")}
    /\ NextBuffer(f, FALSE)
    /\ UNCHANGED <<records, taken, stored, buf, mode, lost>>

(* What a restart begins with: the buffers are gone, the records after the *)
(* committed offsets are read again.                                       *)
Reborn ==
    /\ buf' = [s \in Streams |-> <<>>] /\ taken' = stored
    /\ flusher' = [f \in Flushers |-> Idle] /\ degraded' = FALSE /\ mode' = "up"

(* Mutant: the rows leave the buffer whether or not they are copied yet.   *)
DropSentOneMore(f) ==
    LET fl == flusher[f]  s == Head(fl.todo)  n == Len(fl.rows) IN
    /\ fl.sent
    /\ \/ /\ n <= Len(buf[s])
          /\ buf' = [buf EXCEPT ![s] = SubSeq(@, n + 2, Len(@))]
          /\ NextBuffer(f, TRUE)
          /\ UNCHANGED <<taken, mode, incidents>>
       \/ /\ n > Len(buf[s]) /\ Reborn
          /\ incidents' = incidents \cup {"restart"}
    /\ UNCHANGED <<records, stored, table, lost, anFaults>>

(* slices.Delete under the mutex: as many rows as were sent, whichever     *)
(* these are by now.  With fewer rows in the buffer it panics, which ends  *)
(* the process.                                                            *)
DropSent(f) ==
    LET fl == flusher[f]  s == Head(fl.todo)  n == Len(fl.rows) IN
    /\ fl.sent
    /\ \/ /\ n <= Len(buf[s])
          /\ buf' = [buf EXCEPT ![s] = SubSeq(@, n + 1, Len(@))]
          /\ NextBuffer(f, TRUE)
          /\ UNCHANGED <<taken, mode, incidents>>
       \/ /\ n > Len(buf[s]) /\ Reborn
          /\ incidents' = incidents \cup {"restart"}
    /\ UNCHANGED <<records, stored, table, lost, anFaults>>

-----------------------------------------------------------------------------
(* The process is killed and started again.  Bound: once.                  *)
Crash ==
    /\ "restart" \notin incidents /\ Reborn /\ UNCHANGED anFaults
    /\ lost' = lost \cup UNION {{<<s, buf[s][k]>> : k \in {j \in 1..Len(buf[s]) : buf[s][j] <= stored[s]}} : s \in Streams}
    /\ incidents' = incidents \cup {"restart"}
    /\ UNCHANGED <<records, stored, table>>

(* SIGTERM.  The rest of a fetch at hand may still be added to a buffer    *)
(* (handleFetches does not look at ctx); those rows come after the others, *)
(* are not committed and will be read again, and are left out.  Bound:     *)
(* only the first process is told to stop.                                 *)
Terminate ==
    /\ mode = "up" /\ "restart" \notin incidents /\ mode' = "stopping"
    /\ incidents' = IF \E s \in Streams : Len(buf[s]) > 2 * BatchSize
                    THEN incidents \cup {"stop_backlog"} ELSE incidents
    /\ UNCHANGED <<records, taken, stored, buf, table, flusher, degraded, lost, anFaults>>

(* RunFlusher: ctx is done, it flushes once more and returns.              *)
LastFlush ==
    /\ mode = "stopping" /\ IsIdle("ticker") /\ mode' = "draining"
    /\ flusher' = [flusher EXCEPT !["ticker"] = Flush]
    /\ UNCHANGED <<records, taken, stored, buf, table, degraded, incidents, lost, anFaults>>

(* g.Wait returns and the deferred Close flushes.                          *)
Close ==
    /\ mode = "draining" /\ (\A f \in Flushers : IsIdle(f)) /\ mode' = "closing"
    /\ flusher' = [flusher EXCEPT !["closer"] = Flush]
    /\ UNCHANGED <<records, taken, stored, buf, table, degraded, incidents, lost, anFaults>>

(* The next process.                                                       *)
StartAgain ==
    /\ mode = "closing" /\ (\A f \in Flushers : IsIdle(f)) /\ Reborn
    /\ incidents' = incidents \cup {"restart"}
    /\ UNCHANGED <<records, stored, table, lost, anFaults>>

(* flushEvents and flushClicks, the same code for either buffer.           *)
FlushStep(f) == Reserve(f) \/ SendBatch(f) \/ DropSent(f)

Beacons == {<<"fact">>, <<"new", "fact">>, <<"fact", "fact", "fact">>}

(* Bound: of a behaviour in which two flushes of one buffer overlapped     *)
(* only these flushes are followed.                                        *)
Apart == "overlap" \notin incidents

AnNext ==
    \/ \E f \in Flushers : FlushStep(f)
    \/ /\ Apart
       /\ \/ FunnelEvent("fact") \/ \E b \in Beacons : IngestEvents(b)
          \/ \E s \in Streams : Handle(s) \/ CommitOffsets(s)
          \/ \E f \in Flushers : SendBatchFails(f)
          \/ Tick \/ Crash \/ Terminate \/ LastFlush \/ Close \/ StartAgain

-----------------------------------------------------------------------------
(* A row the sink accepted is in its buffer or in ClickHouse: through      *)
(* failed sends, eager and periodic flushes of both buffers, a shutdown    *)
(* that finds no more than two batches waiting, and crashes, which lose    *)
(* only what was buffered and committed.  Two flushes of one buffer at     *)
(* once, a longer backlog or an outage at shutdown are what else may lose  *)
(* it (flushEvents, RunFlusher, Close).                                    *)
RowsKept ==
    (incidents \cap {"overlap", "stop_backlog", "stop_outage"} = {}) =>
        \A s \in Streams : \A i \in 1..taken[s] :
            Flattened(records[s][i]) => Contains(buf[s], i) \/ table[s][i] > 0 \/ <<s, i>> \in lost

(* ClickHouse holds a row once unless a batch arrived whose answer was     *)
(* lost, two flushes overlapped or the process restarted (slices.Delete    *)
(* after Send; the consumers' comments accept those duplicates).           *)
WrittenOnce ==
    (incidents \cap {"overlap", "unacked", "restart"} = {}) =>
        \A s \in Streams : \A i \in 1..Limit(s) :
            table[s][i] <= 1 /\ (Contains(buf[s], i) /\ table[s][i] = 1 =>
                                   \E f \in Flushers : flusher[f].sent /\ Contains(flusher[f].rows, i))

(* Every record is in ClickHouse, or an incident may have lost it.         *)
AllLanded ==
    \/ incidents \cap {"overlap", "stop_backlog", "stop_outage"} # {}
    \/ \A s \in Streams : \A i \in 1..Len(records[s]) :
          Flattened(records[s][i]) => table[s][i] > 0 \/ <<s, i>> \in lost

(* Backpressure ends: a record waits in Kafka while the buffer is full and *)
(* is in ClickHouse in the end, however often sends fail on the way        *)
(* (Retryable, refuseLocked, RunFlusher).  Records are finitely many.      *)
RecordsLand == []<>AllLanded

(* "Rows are *reserved*, not removed, until ClickHouse confirms the write  *)
(* - they are only dropped from the buffer on success" (flushEvents).      *)
ReservedUntilConfirmed ==
    [][\A s \in Streams : \A k \in 1..Len(buf[s]) :
         Contains(buf'[s], buf[s][k]) \/ table'[s][buf[s][k]] > 0
            \/ ("restart" \in incidents' \ incidents) \/ mode # "up"]_anVars
=============================================================================
