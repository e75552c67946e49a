------------------------------ MODULE Mailbox ------------------------------
(***************************************************************************)
(* One mailbox of the server: the table vtxo_mailbox, the channel that     *)
(* mailbox_manager.rs keeps for it, the calls of rpcserver/mailbox.rs, and *)
(* the older table arkoor_mailbox that clients empty with pull_oors.       *)
(***************************************************************************)
EXTENDS Integers, Sequences, FiniteSets, Functions

CONSTANTS
    Posts,          \* for each post call: the sequence of vtxos in it
    Readers,        \* clients of the mailbox
    Pullers,        \* callers of pull_oors
    MailModes,      \* scenarios
    MaxConnects     \* subscriptions of one reader

ASSUME MailAssumption ==
    /\ MaxConnects \in Nat \ {0} /\ IsFiniteSet(DOMAIN Posts)
    /\ \A p \in DOMAIN Posts : Posts[p] \in Seq(Range(Posts[p])) /\ Posts[p] # <<>>

VARIABLES
    mailMode,       \* the scenario
    lastCp,         \* checkpoint_state
    rows,           \* vtxo_mailbox: records [cp, vtxo]
    post,           \* the post calls
    channel,        \* the watch channel: it exists, its value
    reader,         \* the readers, with the server's side of their streams
    oors,           \* arkoor_mailbox: vtxo -> "new", "processed" or "none"
    puller          \* the pull_oors calls

mailVars == <<mailMode, lastCp, rows, post, channel, reader, oors, puller>>

PostCalls == DOMAIN Posts
MailVtxos == UNION {Range(Posts[p]) : p \in PostCalls}

NoStream ==
    [pc |-> "off", processed |-> 0, changed |-> FALSE, entries |-> <<>>, cp |-> 0, got |-> <<>>, connects |-> 0]

MailInit ==
    /\ mailMode \in MailModes
    /\ lastCp = 0 /\ rows = {}
    /\ post = [p \in PostCalls |-> [pc |-> "new", cp |-> 0, at |-> 1]]
    /\ channel = [exists |-> FALSE, value |-> 0]
    /\ reader = [r \in Readers |-> NoStream]
    /\ oors = [v \in MailVtxos |-> "none"]
    /\ puller = [c \in Pullers |-> [pc |-> "new", seen |-> {}, got |-> {}]]

(* store_vtxos_in_mailbox: SELECT next_checkpoint(), then one INSERT for    *)
(* each vtxo; not in a transaction.                                         *)
NextCheckpoint(p) ==
    /\ post[p].pc = "new"
    /\ mailMode.serial => \A q \in PostCalls : post[q].pc \in {"new", "done"}
    /\ lastCp' = lastCp + 1
    /\ post' = [post EXCEPT ![p] = [@ EXCEPT !.pc = "insert", !.cp = lastCp + 1]]
    /\ UNCHANGED <<mailMode, rows, channel, reader, oors, puller>>

InsertRow(p) ==
    /\ post[p].pc = "insert"
    /\ rows' = rows \cup {[cp |-> post[p].cp, vtxo |-> Posts[p][post[p].at]]}
    /\ post' = [post EXCEPT ![p] = [@ EXCEPT !.at = post[p].at + 1,
                                            !.pc = IF post[p].at = Len(Posts[p]) THEN "notify" ELSE "insert"]]
    /\ UNCHANGED <<mailMode, lastCp, channel, reader, oors, puller>>

Connected(r) == reader[r].pc # "off"

(* MailboxManager::notify: without a receiver the entry is removed, after a  *)
(* second look under the write lock.                                         *)
Notify(p) ==
    /\ post[p].pc = "notify"
    /\ LET listened == \E r \in Readers : Connected(r)
       IN /\ post' = [post EXCEPT ![p].pc = IF channel.exists /\ ~listened THEN "remove" ELSE "done"]
          /\ channel' = IF channel.exists /\ listened THEN [channel EXCEPT !.value = post[p].cp] ELSE channel
          /\ reader' = IF channel.exists /\ listened
                         THEN [r \in Readers |-> [reader[r] EXCEPT !.changed = Connected(r)]]
                         ELSE reader
    /\ UNCHANGED <<mailMode, lastCp, rows, oors, puller>>

RemoveEntry(p) ==
    /\ post[p].pc = "remove"
    /\ channel' = IF \E r \in Readers : Connected(r) THEN channel ELSE [exists |-> FALSE, value |-> 0]
    /\ post' = [post EXCEPT ![p].pc = "done"]
    /\ UNCHANGED <<mailMode, lastCp, rows, reader, oors, puller>>

(***************************************************************************)
(* subscribe_mailbox and read_mailbox                                      *)
(***************************************************************************)
(* get_vtxos_mailbox: the rows after cp, as one entry for each checkpoint   *)
VtxosAfter(cp) ==
    LET cps == {row.cp : row \in {x \in rows : x.cp > cp}}
    IN [i \in 1 .. Cardinality(cps) |->
            LET c == CHOOSE x \in cps : Cardinality({y \in cps : y <= x}) = i
            IN [cp |-> c, vtxos |-> {row.vtxo : row \in {x \in rows : x.cp = c}}]]

(* The first value is marked as changed.                                     *)
Subscribe(r) ==
    /\ ~Connected(r) /\ reader[r].connects < MaxConnects
    /\ channel' = [channel EXCEPT !.exists = TRUE]
    /\ reader' = [reader EXCEPT ![r] = [@ EXCEPT !.pc = "wait", !.processed = reader[r].cp, !.changed = TRUE,
                                                 !.entries = <<>>, !.connects = reader[r].connects + 1]]
    /\ UNCHANGED <<mailMode, lastCp, rows, post, oors, puller>>

TipChanged(r) ==
    /\ reader[r].pc = "wait" /\ reader[r].changed
    /\ reader' = [reader EXCEPT ![r] = [@ EXCEPT !.changed = FALSE,
                                                !.pc = IF channel.value <= reader[r].processed THEN "wait"
                                                       ELSE "fetch"]]
    /\ UNCHANGED <<mailMode, lastCp, rows, post, channel, oors, puller>>

FetchEntries(r) ==
    /\ reader[r].pc = "fetch"
    /\ reader' = [reader EXCEPT ![r] = [@ EXCEPT !.entries = VtxosAfter(reader[r].processed), !.pc = "yield"]]
    /\ UNCHANGED <<mailMode, lastCp, rows, post, channel, oors, puller>>

(* Faulty variant: the tip counts as processed with the first entry. *)
YieldEntryTip(r) ==
    /\ reader[r].pc = "yield"
    /\ reader' = IF reader[r].entries = <<>> THEN [reader EXCEPT ![r].pc = "wait"]
                 ELSE LET e == Head(reader[r].entries)
                      IN [reader EXCEPT ![r] = [@ EXCEPT !.processed = channel.value, !.cp = channel.value,
                                                         !.got = Append(@, e), !.entries = Tail(@)]]
    /\ UNCHANGED <<mailMode, lastCp, rows, post, channel, oors, puller>>

YieldEntry(r) ==
    /\ reader[r].pc = "yield"
    /\ reader' = IF reader[r].entries = <<>> THEN [reader EXCEPT ![r].pc = "wait"]
                 ELSE LET e == Head(reader[r].entries)
                      IN [reader EXCEPT ![r] = [@ EXCEPT !.processed = e.cp, !.cp = e.cp,
                                                         !.got = Append(reader[r].got, e),
                                                         !.entries = Tail(reader[r].entries)]]
    /\ UNCHANGED <<mailMode, lastCp, rows, post, channel, oors, puller>>

Disconnect(r) ==
    /\ Connected(r)
    /\ reader' = [reader EXCEPT ![r] = [NoStream EXCEPT !.cp = reader[r].cp, !.got = reader[r].got,
                                                        !.connects = reader[r].connects]]
    /\ UNCHANGED <<mailMode, lastCp, rows, post, channel, oors, puller>>

ReadMailbox(r) ==
    /\ ~Connected(r)
    /\ VtxosAfter(reader[r].cp) # <<>>
    /\ LET entries == VtxosAfter(reader[r].cp)
       IN reader' = [reader EXCEPT ![r] = [@ EXCEPT !.got = reader[r].got \o entries,
                                                   !.cp = entries[Len(entries)].cp]]
    /\ UNCHANGED <<mailMode, lastCp, rows, post, channel, oors, puller>>

(***************************************************************************)
(* arkoor_mailbox                                                          *)
(***************************************************************************)
StoreArkoor(v) ==
    /\ oors[v] = "none"
    /\ mailMode.quiet => \A c \in Pullers : puller[c].pc \in {"new", "done", "panic"}
    /\ oors' = [oors EXCEPT ![v] = "new"]
    /\ UNCHANGED <<mailMode, lastCp, rows, post, channel, reader, puller>>

NewOors == {v \in MailVtxos : oors[v] = "new"}

SelectOors(c) ==
    /\ puller[c].pc = "new" /\ NewOors # {}
    /\ puller' = [puller EXCEPT ![c] = [@ EXCEPT !.pc = "update", !.seen = NewOors]]
    /\ UNCHANGED <<mailMode, lastCp, rows, post, channel, reader, oors>>

(* assert_eq!(result, rows.len()): the answer is lost if the counts differ.  *)
UpdateOors(c) ==
    /\ puller[c].pc = "update"
    /\ oors' = [v \in MailVtxos |-> IF oors[v] = "new" THEN "processed" ELSE oors[v]]
    /\ puller' = [puller EXCEPT ![c] =
                    IF Cardinality(NewOors) = Cardinality(puller[c].seen)
                      THEN [@ EXCEPT !.pc = "done", !.got = puller[c].seen]
                      ELSE [@ EXCEPT !.pc = "panic"]]
    /\ UNCHANGED <<mailMode, lastCp, rows, post, channel, reader>>

StreamStep(r) == TipChanged(r) \/ FetchEntries(r) \/ YieldEntry(r)
PostProceeds(p) == InsertRow(p) \/ Notify(p) \/ RemoveEntry(p)
PostStep(p) == NextCheckpoint(p) \/ PostProceeds(p)

MailNext ==
    \/ mailMode.pulls /\ \/ \E v \in MailVtxos : StoreArkoor(v)
                         \/ \E c \in Pullers : SelectOors(c) \/ UpdateOors(c)
    \/ ~mailMode.pulls /\ \/ \E p \in PostCalls : PostStep(p)
                          \/ \E r \in Readers : StreamStep(r) \/ Subscribe(r) \/ Disconnect(r) \/ ReadMailbox(r)

MailSpec == MailInit /\ [][MailNext]_mailVars

(***************************************************************************)
(* Properties                                                              *)
(***************************************************************************)
MailTypeOK ==
    /\ lastCp \in Nat
    /\ \A row \in rows : row.cp \in 1 .. lastCp /\ row.vtxo \in MailVtxos
    /\ \A r \in Readers : reader[r].cp \in 0 .. lastCp /\ reader[r].pc \in {"off", "wait", "fetch", "yield"}

(* A reader gets every checkpoint once and in order, over all its streams   *)
(* and reads.                                                               *)
InOrder == \A r \in Readers : \A i, j \in 1 .. Len(reader[r].got) : i < j => reader[r].got[i].cp < reader[r].got[j].cp

ReceivedBy(r) == UNION {e.vtxos : e \in Range(reader[r].got)}

(* If posts do not overlap and have one vtxo each, a reader's checkpoint    *)
(* never passes a vtxo that the reader does not have.                        *)
NothingSkipped ==
    mailMode.serial => \A r \in Readers : \A row \in rows : row.cp <= reader[r].cp => row.vtxo \in ReceivedBy(r)

(* A stream that is open when a post is announced delivers its vtxos,       *)
(* unless the reader leaves.                                                 *)
AnnouncedDelivered ==
    \A r \in Readers, p \in PostCalls :
        mailMode.serial /\ reader[r].pc = "wait" /\ post[p].pc = "notify"
            ~> ~Connected(r) \/ Range(Posts[p]) \subseteq ReceivedBy(r)

(* pull_oors: if nothing is stored meanwhile, concurrent calls lose nothing: *)
(* what is marked as processed was returned, and to one caller.              *)
PulledOnce ==
    mailMode.quiet => \A v \in MailVtxos :
        oors[v] = "processed" => Cardinality({c \in Pullers : v \in puller[c].got}) = 1

(* "This ensures `mailbox_tip_rx` will return immediately and start         *)
(* fetching historical records": not met, the first value is 0.             *)
HistoryDelivered ==
    \A r \in Readers : \A v \in MailVtxos :
        Connected(r) /\ (\E row \in rows : row.vtxo = v) ~> ~Connected(r) \/ v \in ReceivedBy(r)
=============================================================================
