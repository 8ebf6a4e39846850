# Verification of netconfd-pro

TLA+ models of the YumaPro 13.04 NETCONF server and of its client yangcli-pro
(`netconf/src` of the repository), the TLC configurations that check them on small instances, and
proofs checked by TLAPS. File names below are relative to
`src/yumapro-13.04/netconf/src`.

- [The system](#the-system)
- [The modules](#the-modules)
- [The runs](#the-runs)
- [What is proved](#what-is-proved)
- [What the code does and a comment says it does not](#what-the-code-does-and-a-comment-says-it-does-not)
- [What is not modelled](#what-is-not-modelled)
- [Plan](#plan)

## The system

netconfd-pro is one process with one thread. `agt_ncxserver_run` waits in
`select()`, reads every socket that has input into the message queues of the
sessions, then takes sessions off a ready queue and lets each of them process
one message to the end, and waits again. Timeouts and timers are looked at only
when `select()` returned nothing for a second. Hence no two requests overlap,
and what makes the server hard to test is not data races but *order*: requests
of several sessions, sessions that end at any moment, the expiry of a confirmed
commit, callbacks and file operations that fail in the middle of a request, and
restarts.

| component | source | state | operations | what makes it correct |
|---|---|---|---|---|
| Server loop | `agt/agt_ncxserver.c` | `read_fd_set`, `active_fd_set` | accept, read, drain, timeout branch | every complete message is dispatched; timeouts expire; no session is starved |
| Sessions | `agt/agt_ses.c`, `ncx/ses.c`, `ncx/ses_msg.c` | `agtses[]`, `next_sesid`, the ready queue, per session: state, message queue, times | new, kill, free, check timeouts, make ready | slots are not overwritten, the limit is kept, an ended session leaves no lock and no commit behind |
| Dispatch | `agt/agt_top.c`, `agt/agt_connect.c`, `agt/agt_hello.c`, `agt/agt_rpc.c` | session state | `<ncx-connect>`, `<hello>`, `<rpc>` | a message acts only in the state it is expected in |
| Datastores | `ncx/cfg.c` | `cfg_arr[]`: root, state, flags, owner of the lock, partial locks, `load_errQ` | lock, unlock, fill, release | a lock has a live owner and keeps others out; a clean `<candidate>` equals `<running>` |
| Commit | `agt/agt_ncx.c` | `commit_cb`, the startup and the backup file | the standard `<rpc>`s, confirmed commit, its expiry, backup and restore | all of a commit or nothing; a commit that is not confirmed is taken back; a restart boots what was confirmed |
| Edit transactions | `agt/agt_val.c`, `agt/agt_cb.c`, `agt/agt_cfg.c` | the undo records of a message, marks on nodes, the transaction id | validate, apply, commit, rollback, one SIL callback per phase | every callback that was told to apply is told to commit or to roll back |
| Partial locks | `agt/agt_plock.c`, `ncx/plock.c`, `ncx/plock_cb.c`, slots on nodes in `ncx/val_util.c` | `plockQ`, at most `VAL_MAX_PLOCKS` pointers per node, pointers from a lock to its nodes | lock, unlock, check on write, swap and free of nodes | a node a lock reports as locked has it in a slot; ids are not shared; a commit keeps what others have locked |
| Timers | `agt/agt_timer.c` | timer queue, next id | create, restart, delete, fire | a deleted timer does not fire |
| Notifications | `agt/agt_not.c` | event log, subscriptions and where each of them is | queue, replay, send, drop the oldest | each subscriber sees each event once and in order |
| Access control | `agt/agt_acm*.c` | rules, a cache per message | evaluate | the cache never outlives a change of the rules |
| Client manager | `mgr/*.c` | requests that wait for a reply | send, match a reply, time out | a late reply matches no other request |
| yangcli-pro | `ycli/*.c` | autolock state | lock all, retry, release | all locks or none |
| Value tree, schema, XPath, parsers, translators | `ncx/*.c`, `ydump/*.c` | trees and symbol tables | sequential algorithms | functional correctness of parsing and evaluation |

How they interact. The loop calls the session code, which calls the dispatcher,
which calls the validate and the invoke callback of an `<rpc>` in `agt_ncx.c`;
these use `cfg.c` for locks and roots and `agt_val.c` to apply edits, which
calls back into the instrumentation (SIL). The end of a session is the knot:
`agt_ses_kill_session` is reached from the loop, from the timeouts, from
`<kill-session>` of another session and from the dispatcher, cancels the
confirmed commit (which loads the backup file and rewrites two datastores),
drops partial locks and global locks (which rewrites `<candidate>` again), and
frees the control block that may still be linked into the ready queue.

The client is one process with one thread as well. `mgr_io_run` calls the input
handler of yangcli-pro, writes, waits 100 microseconds for replies, and calls
the handler again; a reply is matched with the queue of requests and handed to
`yangcli_reply_handler`. What races there is time: each request has a timeout, a
`get-locks` command has one, and the server answers when it likes.

`PROJECT.json` lists each of the points where this may go wrong, with its line
and the property that would catch it ("hazards").

## The modules

| module | what it is |
|---|---|
| `Datastores` | locks, the operations on `<candidate>`, `<running>`, `<startup>` and the files, confirmed commit, end of a session, restart |
| `ConfirmedCommit` | the abstract commit service `Datastores` implements |
| `MCDatastores` | factory values and symmetry for TLC |
| `Datastores_proofs` | theorems about `Datastores`: for all constants with failing calls, and without a distinct `<startup>` |
| `EditTransaction` | one transaction on `<running>`: edits, undo records, the callbacks of the instrumentation |
| `MCEditTransaction` | a small tree with a choice for TLC |
| `EditTransaction_proofs` | theorems about `EditTransaction`: the tree |
| `Callbacks_proofs` | theorems about `EditTransaction`: the instrumentation |
| `ServerLoop` | the select loop, sessions and their ready queue |
| `ServerLoop_proofs` | theorems about `ServerLoop` |
| `PartialLock` | partial locks on the nodes of `<running>`, edits of `<candidate>` and commits |
| `MCPartialLock` | a container with a leaf, and symmetry, for TLC |
| `PartialLock_proofs` | theorems about `PartialLock` |
| `Notifications` | the event log, subscriptions, and the pass that sends notifications |
| `MCNotifications` | start and stop times for TLC |
| `Notifications_proofs` | theorems about `Notifications` |
| `Framing` | base:1.0 and base:1.1: from the messages of the peer to the bytes the XML reader sees |
| `MessageChannel` | the abstract channel `Framing` implements |
| `MCFraming` | messages around the size of a buffer for TLC |
| `Framing_proofs` | theorems about `Framing` |
| `Autolock` | `get-locks` and `release-locks` of the client, its request queue and its timeouts |
| `Autolock_proofs` | theorems about `Autolock` |

### Datastores

The server when the edit target is `<candidate>` (`--target=candidate`, the
default). An action is a whole request whose validate callback succeeds: the
thread completes it before it looks at anything else. A request that is refused
is no action, so the guards of an action are the checks of
the validate callback, and its primed variables are what the invoke callback
and everything it calls assign. The exception is a refused `<commit>`
(`CommitRefused`, and the second disjunct of `ApplyEdits`): it leaves the nodes
that were refused marked as deleted in `<candidate>`.

| variable | in the code |
|---|---|
| `live` | the sessions in `agtses[]` |
| `cfg_state`, `locked_by` | the fields of `cfg_template_t` of each datastore |
| `plocks` | how many entries of a session are in `plockQ` of `<running>` |
| `root` | `cfg_template_t.root`, as a function from nodes to values |
| `dirty` | `CFG_FL_DIRTY` of `<candidate>` |
| `edited` | the nodes that marks (`VAL_FL_DIRTY`, and `VAL_FL_CHILD_DELETED` of the parent) make a commit apply, in `<candidate>`, and in `<startup>`, whose marks a copy brings back |
| `load_errQ` | whether `load_errQ` of `<running>` is not empty |
| `nv`, `backup`, `backups` | what the startup file, the backup file of commits, and the files of `<backup>` hold |
| `cc` | `commit_cb`; `expired` stands for the times |

The actions are named for the requests (`Lock`, `EditConfig`,
`CopyStartupToCandidate`, ...). `<commit>` is four actions after the four
branches of `commit_invoke`: `Commit`, `StartConfirmed`, `ExtendConfirmed` and
`FinishConfirmed`. `agt_ncx_internal_commit` is one operator that they share. It
takes the roots, the startup file and the marks as parameters because a
confirming commit saves `<running>` *before* it applies the edits it came with.
A callback that refuses a commit, fails to undo it, a file that cannot be
written and a restore that is refused are the disjuncts that the constant
`Faults` switches on. `SessionEnds` is `agt_ses_kill_session` in its order:
cancel the commit, drop the partial locks, drop the global locks.
`SessionDropped` is the shorter way out in `agt_top_dispatch_msg`. `Reboot` is
a crash or a shutdown at any moment and the boot after it: only the files
survive.

`ConfirmedCommit` says in six actions what the commit operations promise:
a commit replaces what runs and what is confirmed at once; a confirmed commit
may add to what runs; it ends by being confirmed as it is or by putting back
exactly what was confirmed. `Datastores` implements it with the refinement
mapping at the end of the module: *confirmed* is the backup file while a
confirmed commit is pending, otherwise `<running>`.

Abstractions. A configuration maps a few independent nodes without defaults to
values; what the nodes are, and whether the new configuration is valid, is left out (an invalid
one is refused in the validate phase). Partial locks are counts, not subtrees,
so which write a partial lock refuses is not known in this model: that it
refuses a commit is one of the meanings of `"sil"` in `Faults`, and what it does
to the state of `<running>` is there. The confirmed-commit timeout can elapse at any moment,
which covers all timeouts and extensions.

### EditTransaction

`Datastores` commits in one step: `agt_ncx_internal_commit` merges all marked
nodes or none. `EditTransaction` opens that step. It is one transaction of
`agt_val.c` that writes `<running>`: an `<edit-config>` (`agt_val_apply_write`),
a `<commit>` (`agt_val_apply_commit`) or a restored backup. That nothing else
runs between its steps is the single thread; what may go wrong is a refusal at
any of them, by the instrumentation or by the check of the new tree.

| variable | in the code |
|---|---|
| `phase` | which callbacks `handle_callback` is calling |
| `running` | the tree under `target->root` without the nodes marked as deleted |
| `before`, `target` | the tree when the transaction began, and what the message or `<candidate>` makes of it |
| `todo`, `replace` | the nodes where `agt_apply_this_node_ex` will find an edit, and those of them with an explicit replace |
| `undoQ`, `pos` | the undo records of `rpc_txcb` and the record that `attempt_commit` or `attempt_rollback` has come to |
| `conf`, `pend` | what the instrumentation of each node runs and what it has reserved |
| `loose` | the nodes whose instrumentation was left half way |

An action is one edit of the apply phase or one undo record of the commit or
the rollback, with all the callbacks it calls. Which these are is the operator
`Points`: the callback of the node or of the closest parent, then those of the
nodes below it that differ, down to a node without a callback. It is used three times with three pairs of trees,
as in the code: APPLY compares the new contents with the tree, COMMIT with the
undo record, and undoing a committed edit compares the restored tree with the
one it replaces. That these agree is what `Settled` and `Agrees` rest on.

Which nodes have callbacks is left open (`Registered`), and so is the module
each node belongs to (`Module`). The search for the callback of a parent stops
where the namespace changes (`Handlers`), and the walk down from a callback
stops at a node without one (`Points`). So a callback may exist that an edit
from above does not reach; `Agrees` speaks of the nodes whose callback every
edit reaches (`Reached`): one that has a handler, and on the way down to
each of its handlers no node without a callback.

The instrumentation is external. The model gives it the contract of `agt.h`:
APPLY reserves, COMMIT activates what was reserved, ROLLBACK releases it, and a
callback that refuses has done nothing. `loose` collects the nodes the code
leaves between these: nodes whose APPLY was accepted before one below them
refused, nodes of a record whose COMMIT was refused elsewhere in it, callbacks
that refuse to undo, a `remove` of what is not there (APPLY and nothing after
it), and the nodes of other cases of a choice, which get no callback when the
edit is committed. `Settled` and `Agrees` speak of all other nodes; the tree
itself (`AllOrNothing`) has no exception.

Abstractions. Nodes form a forest given by `Subtree`, choices by `Rivals`; a
leaf and a container are both nodes with a value. The order in which edits are
applied is left open, where the code follows the message. Left out: nodes that
a false when-stmt deletes, schema defaults, insert and move in lists, virtual
nodes, `--sil-delete-children-first`, and the validate phase, which leaves
`<running>` and the instrumentation alone.

### ServerLoop

| variable | in the code |
|---|---|
| `pc` | where `agt_ncxserver_run` is: in `select()`, servicing the sockets, draining |
| `readset` | `read_fd_set` after `select()`; 0 is the listening socket |
| `backlog` | connections the kernel has for `accept()` |
| `next_sesid`, `agtses` | the statics of `agt_ses.c`; a control block has the session state, the input not read, the complete messages (`msgQ`), `inready.inq` and whether its timeout has elapsed |
| `inreadyQ` | the ready queue of `ses_msg.c`, by session id |
| `cc` | whether a confirmed commit is pending, and due |
| `timeouts` | the states of sessions for which the profile has a timeout; it is chosen at the start, from `Timeouts` |

Clients and the clock are `Connect`, `Send`, `TimeElapses` and `CcElapses`; the
other actions are the steps of the thread. `ses_accept_input` reads any number
of the messages that have arrived, so a message may always still be on its way.
`agt_ses_process_first_ready` takes one entry off the queue and is `DrainStops`
when it finds no session or no message, else one of the handlers. A session that
has another message is queued again behind the others. `SelectTimesOut` is
`agt_ses_check_timeouts`; with both timeouts switched off and no confirmed
commit pending it returns at once (`QuickExit`).

The entry of a session that ends while it is queued stays in the queue:
`ses_free_scb` frees the memory it lives in. The model lets it keep its session
id, or the server crash (`Restart`); there is no outcome in which other data
took its place. Slots are used again once the last id was given out, so such an
entry may name a *new* session; that is the interesting case and both
configurations reach it.

Abstractions. A message is one of six kinds. Its framing, parts of messages,
output buffers and notifications are left out. The error a session gets for
more than four messages before `<hello>` is not reached with `MaxInput` below 4.

### PartialLock

`Datastores` counts partial locks. `PartialLock` gives them nodes: a lock is a
control block, each node it selects keeps a pointer to it in one of its
`VAL_MAX_PLOCKS` slots, and the lock keeps pointers to the nodes of its final
result. Nodes move: a commit takes some from `<candidate>` into `<running>`
(`val_check_swap_resnode` takes the slots along), frees others, and
`<discard-changes>` clones a tree with its slots.

| variable | in the code |
|---|---|
| `running`, `candidate` | the two trees, as functions from nodes to values |
| `editop`, `dirty`, `deleted` | `editop`, `VAL_FL_DIRTY` and `VAL_FL_CHILD_DELETED` of the nodes of `<candidate>` |
| `plock`, `cplock` | the slots of the nodes of `<running>` and of `<candidate>` |
| `plockQ`, `sid`, `plock_id`, `result` | the locks of `<running>`, and the owner, id and final result of each block |
| `last_id`, `cfg_state` | the counter of `plock_cb.c`, the state of `<running>` |

Blocks are memory: one that was freed may be handed out again, so a slot that
was forgotten would belong to the next lock with the address. The actions are
the two requests, the end of a session, the edits (merge of a leaf, merge or
replacement of a subtree, delete), `<discard-changes>` and `<commit>`. `Commit` is
`agt_val_check_commit_edits`, which refuses what other sessions have locked,
and the apply phase with its swaps. The select expressions are sets of nodes.
Left out: default values, access control, a distinct `<startup>`, callbacks
that refuse, which are in `EditTransaction`, and what a refused commit leaves in
`<candidate>`, which is in `Datastores`.

### Notifications

| variable | in the code |
|---|---|
| `events` | every event so far; its index is the `msgid` |
| `notificationQ`, `notification_count` | the log and the count that `queue_notification` keeps |
| `sub` | the `agt_not_subscription_t` of a session: state, times, pointers into the log and the ids behind them |
| `sent` | what a session has been sent |
| `sending`, `sendtotal` | where `send_some_notifications` of the loop is |

`agt_not_send_notifications` is one pass: it sends at most one message to every
subscription, by the state of each (replay, timed, live, shutdown). Events,
subscriptions and the end of sessions come between passes. The log deletes its
oldest entry when it is full, and `delete_oldest_notification` clears the
pointers to it; the subscription then finds its place again by the id. Pointers
are ids in the model, so that a pointer to an entry that is gone can be told
from one that is not (`PointersLive`). With `--eventlog-size=0` nothing is kept
beyond what has been sent (`agt_not_clean_eventlog`). The text of events and
the filter language are left out: a filter lets some types pass. So are
allocations that fail and the wrap of the id.

### Framing

One direction of one session. `SendEOM` and `SendChunks` are the output side
(`ses_msg.c` for chunks of our own size, any other size for other
implementations), `net` the stream, `ses_accept_input` a read of any number of
the bytes that have arrived, and `accept_buffer_ssh_v10` and
`accept_buffer_ssh_v11` the two state machines, byte by byte. They fill a list
of buffers of fixed size; `Seen` is what `ses_read_cb` hands to the XML
reader. The `<hello>` is framed by base:1.0 and the session switches when it is
dispatched, so a change of the framing lies in the stream.

`MessageChannel` is what the rest of the server relies on: messages are
received one by one, whole and in the order they were sent. `Framing` implements
it, with the qualification the code makes necessary: a received message may have something behind it (`clean`), and
`GarbageAtBoundary` says exactly when.

In the code base:1.1 data is copied block by block; a byte at a time is the
same, because a read is shorter than a buffer. A chunk size is a decimal number
of any length that fits `startchunk` and is at most `MaxChunk`, in the code the
largest uint32 (`ncx_convert_num`). Messages are XML, so that they end with
">" (`MessageAssumption`). Left out: the `<ncx-connect>` line, the limit on
buffers, and a byte 0 in a read.

### Autolock

The client side of locks. `session` has the fields of `session_cb_t` that
matter: the I/O state (`DOWN`, `IDLE`, `RPYWAIT`), the command mode, and the
state of the lock of each datastore. The helpers of `yangcli_autolock.c` take a
session and return what becomes of it together with the request they send, so
that an action is the whole handler: `mgr_rpc_dispatch` finds the request of a
reply and runs `yangcli_reply_handler`, which may send the next `<lock>`, a
`<discard-changes>` or the first `<unlock>`; the input handler is the actions
`IdleExpired`, `Retry`, `WaitExpired` and `clear_server_cb_session`.

| variable | in the code |
|---|---|
| `session` | `session_cb_t` |
| `reqQ` | `mgr_scb_t.reqQ`: the requests a reply is awaited for, and whether their timeout has come |
| `requests`, `replies` | the two directions of the connection |
| `holder` | who has each datastore locked, on the server |
| `up` | whether the connection exists |
| `missed` | history: which timeouts have cut something short since the connection was made |

The server is external: it grants a lock that is free or fails, denies one that is held,
answers in order, late or never, and may close the connection. Other clients
lock and unlock at will. Message ids count to 2^32 - 2 in the code; the model
takes any id no message under way has. Left out: allocations that fail, the
other automatic modes, and more than one session.

## The runs

All runs but `Framing` check for deadlock: the programs never stop, and neither
do the models. In `Framing` the peer has sent its last message when the bound is
reached, and then there is nothing left to do.

| run | instance | shows |
|---|---|---|
| `DatastoresMirror` | 2 sessions, 2 nodes, 2 values, no distinct `<startup>`, clients that break their sessions | a `<candidate>` that is not dirty equals `<running>`; one that is differs only in marked nodes, so a commit moves all of it; a released lock discards; at every moment a restart would boot the confirmed configuration |
| `DatastoresFaults` | 2 sessions, 1 node, every call may fail, `--startup-error=stop`, `<backup>` files | types; every lock has a live owner; nobody has locked what an expiring commit will overwrite; no other session, no end of a session and no expiry writes through a lock |
| `DatastoresStartup` | 2 sessions, 1 node, a distinct `<startup>`, `--startup-error=continue`, callbacks that refuse a commit and fail to undo it, no other failure | `Datastores` implements `ConfirmedCommit`; a pending commit belongs to a live session or is persistent |
| `ServerLoopQueue` | 3 slots, limit of 2 sessions, 2 messages each, sessions that kill each other | a session with a message is in the ready queue |
| `ServerLoopLive` | 2 slots, everything a client can send, session ends with unread input, both timeouts on and both off | messages are dispatched as long as input comes; when it stops, the hello timeout (if there is one) and the confirmed commit expire, the latter also with both timeouts of sessions switched off |
| `EditTransactions` | a container with a leaf of another module and a choice between a leaf and a container without a callback, which has a leaf with one, and a leaf beside it all; every callback and the root check may refuse | a transaction leaves all its edits or none; afterwards the instrumentation of the nodes that every edit reaches runs what `<running>` shows, and none holds a reservation |
| `PartialLocks` | 2 sessions, a container with a leaf of two values, 3 blocks, 2 slots, ids up to 3 | every node that a lock reports as locked has the lock in a slot; ids are not shared, also after they start again; unmarked nodes of `<candidate>` equal those of `<running>`; a commit keeps what another session has locked |
| `Subscriptions` | 2 sessions, 3 events, log size 0 and 1, 2 notifications per burst, four combinations of start and stop time | pointers are live; events come in order, once and without gaps; `replayComplete` is true and comes once, if there is a start time; `notificationComplete` comes after it, last, if there is a stop time; a live subscription catches up |
| `Framing` | buffers of 12 bytes, reads of up to 4, 3 messages of 3 to 13 bytes, chunks of 1, 3, 5 and 12 bytes | no framing error for a conforming peer; the channel is implemented; bytes after a message appear exactly at a buffer boundary |
| `Autolock` | `<running>` and `<candidate>`, 2 messages under way, with a request timeout and a lock timeout, with and without cleanup | a wait has a request; the client believes only in locks it has; all locks are released; the client takes commands again |
| `CommitKeeps`, `LateGrant` | the instances of `PartialLocks` and `Autolock` (with cleanup) | a statement of the source that the code does not keep, see [below](#what-the-code-does-and-a-comment-says-it-does-not) |

The bounds, and why they suffice:

- Two sessions: one that holds a lock or a commit and one that gets in its way.
  A session id comes back after its session ended, as slots do in the code.
  Sessions are symmetric; no run with symmetry checks liveness.
- One node where only *whether* two datastores differ matters, two where
  marks matter: an edit of one node and an older edit of another.
- Two values, one of them "absent" and also the factory default.
- One partial lock per session (`MaxPlocks`): 0 or not 0 is what the code tests.
- One persist-id: an id either matches or does not.
- Three slots of which two may be taken: a session, another one that ends while
  it is queued, and a slot that is used again; ids count up to the last one and
  are searched for from then on.
- Two messages per session: one that is being processed and one that makes the
  session queue again. One connection waits to be accepted, since the loop
  accepts one per round.
- Six nodes in `EditTransactions`: an edit of a node and an edit below it
  exclude each other, so the interesting transactions have two edits below a
  container that stays, or one of the container and one beside it. Two values for
  the leaf beside it, so that a node may change without being created or
  deleted; this instance has a callback that edits from above do not reach, and
  a node that has none across the border of its module. A
  transaction starts only when no node is loose (`MaxLoose` = 0): one refusal
  per rollback is enough to reach every disjunct, and a restart clears it. With
  one loose node allowed the same properties hold on a tree of five nodes in one
  module, too slow to run each time.

- Two slots and three blocks in `PartialLocks`: two locks of one node, one more
  that is refused, and a block that is used again. Two nodes: a lock of a
  container and one of a node below it. The same properties hold on a chain of
  three nodes, too slow to run each time (42 minutes).
- Three events in `Subscriptions`: with a log of one, two of them push the older
  one out while a subscription points to it. Two messages in a burst stop a
  pass of the loop before everybody has been served.
- Messages in `Framing` end one byte before, at and one byte behind the end of a
  buffer, with the six bytes of the end mark and without; two of them contain
  what looks like parts of frames. A read of 4 bytes cuts the end mark, a chunk
  header and the size in it at every place. Sizes have one and two digits, the
  largest the reader takes is 99; the proofs leave all of these open.
- Two messages under way in `Autolock` when a user command starts: one that is late and one that is
  waited for. A cleanup may add to them; `TypeOK` says there is an id left.
  Two datastores: one that is granted and one that is refused.

Fairness. `Datastores`, `EditTransaction` and `PartialLock` have none: their properties are
safety. `ServerLoop`
assumes weak fairness of three things. The thread takes its next step whenever
it has one: it is a plain loop that blocks nowhere but in `select()`.
`select()` returns after a second when there is nothing to read: its timeout
argument. Time passes. Clients owe nothing. Hence:

- `Served` has the premise that input keeps coming from somebody, because an
  entry of an ended session cuts a drain short, and what is
  left in the queue waits for the next return of `select()` with input.
- `HelloEnds` and `CcExpires` have the premise that from some time on nothing is
  readable, because the timeouts are looked at only then
  (`agt_ncxserver.c:276`): a server that is never quiet for a second postpones
  them without end. A session that has not sent `<ncx-connect>` has no timeout
  at all.

`Notifications` assumes that the loop makes its pass again and again: it does so
in the idle branch, and after every message it has dispatched. `Framing` assumes
that the loop reads what has arrived and drains the ready queue. `Autolock`
assumes that the loop of the client calls the input handler and dispatches
replies, and that time passes: of the server, the connection and the user
nothing is assumed, so `CommandEnds` rests on the two timeouts of the client, of a request and of
`get-locks` (`RequestTimeout`, `LockTimeout`). A request with timeout 0 never
times out (`mgr/mgr_rpc.c:423`), and with `--lock-timeout=0` the command may not
end either, see below; the property speaks of a client that has both.

Every property has a mutant: a definition of the model changed the way a bug in
that code would, for which TLC finds the property violated (`PROJECT.json`,
"mutants"; in the modules, the operators commented *mutant*).

## What is proved

TLAPS checks the following for every value of the constants that the named
assumptions allow.

`Datastores_proofs`: any number of sessions, nodes, values and files, with or
without `<startup>`, any subset of the calls failing. `TypeCorrect`,
`LocksHaveOwners`, `CommitOwnerHoldsLocks`, `LocksProtect`, and
`CommitOwnerLives` if no session is dropped for a bad message (it does not hold
otherwise, see below). The inductive invariant is
`TypeOK /\ OwnerInv`, where `OwnerInv` is `LockOwners`, `CcOwnerHoldsLocks` and
`OwnerLives` (`CcOwnerLives` if no session can be dropped) together. They need
each other: that a session which ends leaves no commit behind follows from the
owner being live, and that a `<lock>` does not come between a commit and its
owner from the locks having live owners. `LocksProtect` is an action property: it follows
because the locks that a pending commit could write through belong to its owner.

The same module proves the refinement `CommitsAreServed`: with a distinct
`<startup>` that is used, without `--startup-error=stop`, and while backups can
be written and loaded (`Distinct`), the datastores implement `ConfirmedCommit`,
with callbacks that refuse commits and fail to undo them, clients that break
their sessions, and `<restore>`. Each
action is mapped to one of the abstract service (`CommitRpcServes`,
`SaveServes`, `CancelServes`, `RestoreServes`, `RebootServes`) or to a stutter
(`OthersServe`); the invariant it needs beside `TypeOK` is that a pending commit
has a backup (`BackedUp`). Each conjunct of `Distinct` is needed: a cancelled
commit whose backup was not written, or is not loaded (with
`--startup-error=stop`, also for a lock on `<running>`), does not go back to
what was confirmed; with `--no-startup` a confirming commit saves a file that no
boot reads; and without a distinct `<startup>` an error left in `load_errQ`
makes an extension save what nobody has confirmed.

The second half of the module is about a server with no distinct `<startup>`, no
`<restore>`, calls of the server that do not fail, commits that nothing refuses, and clients
that may break their sessions (`Plain`): `CleanIsEqual`, `MarksAreComplete`, `StartupMirrors`,
`ReleaseDiscardsEdits`. None of these is inductive alone. `MirrorInv` relates the
four copies of the configuration:
differences between `<candidate>` and `<running>` are marked, a clean candidate
has no difference, the startup file boots the backup while a commit is pending
and `<running>` otherwise, and the backup exists while a commit is pending. The
marks are needed because a commit copies only marked nodes: that `<running>`
equals `<candidate>` after it follows from `MarksCoverEdits` before it.

`EditTransaction_proofs`: any tree, any choices, any set of
callbacks, any modules, any refusals, any order of the edits. `EditTypeCorrect` and
`TransactionIsAtomic`. The inductive invariant is `EditInv`. A rollback that
walks the records forwards is right only if no node is in two records with
different contents. `Kept` says so: every record holds what was there *before the
transaction*, not before the edit. It needs `Ready` (what an edit will change is
still as it was, or was deleted together with another case of a choice), and
that needs `Apart` (edits that are left stand beside each other), by the lemma
`TopsApart`: the subtrees two edits change are disjoint or the same.
`Undoable` says that what differs from before is in a record the rollback has
yet to come to, and `Complete` in `Phases` that what differs from the target is
under an edit that is left.

`Callbacks_proofs`: `ReservationsAreSettled` for any tree and
`InstrumentationAgrees` for any finite one, whichever nodes have callbacks,
whichever modules they belong to and whichever callbacks refuse in
whichever phase. What the code does not reach is part of the property, not an
assumption: `Agrees` is about the nodes that are `Reached`. This server itself
registers a callback with a gap above it (see below), and for such a node
`Agrees` would be false: TLC finds the violation at once when `Reached(n)` is
replaced by "has a handler". The inductive invariant is `CallbackInv`, on top of `EditInv`.
`Pending` says where a reservation is: at a node that one of the records the walk
has yet to come to covers, so none is left when the walk is over. `Active` says
what the instrumentation runs: the new contents under the records that are
committed and not reversed, and the old ones everywhere else. Both are about one
record at a time because records are of separate parts of the tree (`Records`,
which needs `Free`: an edit that is left comes to a part no record has).
`Answers` ties the answers in the records to the place of the walk. The lemma
that carries `Agrees` is `ChangesAreCovered`: every node that an edit changes,
and that is reached, is at or below a point at which the code calls a callback. It
walks from the node to the lowest node with a callback above it, or to the
highest one that is deleted, and the nodes between have the same handlers
(`SameHandlers`). That there is such a node needs a finite tree; no other proof about `EditTransaction` uses
`FiniteAssumption`.

`ServerLoop_proofs`: any number of slots, limits and whatever clients send.
`LoopTypeCorrect`, `NoLostWakeup`, `FlagsTruthful`, `SlotsNeverOverwritten`,
`LimitKept`. The inductive invariant is `LoopInv`: `ReadyQueued` needs
`FlagQueued`, since a session whose flag is set is not queued again, and
`SessionLimit` needs `SlotsFree`, since `check_max_sessions` counts slots only
up to the next id and would miss sessions beyond it. `FlagQueued`, `SlotsFree`
and `SessionLimit` are checked by the prover only: no run repeats them.

`PartialLock_proofs`: every finite tree, any number of sessions, blocks, slots
and ids. A container has one value (it is there or not), which
`TreeAssumption` says. `PlockTypeCorrect`, `ReportsAreTrue`, `IdsAreUnique`,
`MarksCover`, `LocksKeepCommitsOut`. The inductive invariant is `PlockInv`.
`UnmarkedAgree` is not inductive: a commit may leave a flag on a container and a
delete sets one, so what the flags of containers say at one moment does not
determine what they say at the next. `MarksAgree` leaves these flags out and is
stronger. With it, what a commit does to a node follows from where the node is:
it was taken from `<candidate>` with the topmost replaced node above it
(`Topmost`), it was freed with a deleted one, or it stays, and then everything
above it stays (`NotTaken`), which is why the result is a tree (`CommitConfig`).
`ReportedLocked` survives because pointers from a lock to its nodes are moved
along in exactly these three cases (`RepointedIs`), and `LocksKeepCommitsOut`
because the check before the commit visits every node that is changed, except
below a container that is replaced (`CommitSpares`).

`Autolock_proofs`: any set of datastores, any number of messages under way, any
timeouts. `AutolockTypeCorrect`, `WaitsHaveRequests`, `LocksAreHeld`,
`NothingLeftLocked`. Each handler calls a helper that returns what becomes of
the session and the request it sends, so there is one lemma about what any
helper may return (`Effect`) and one about the step that carries it out
(`CarryOut`). The inductive invariant is `AutoInv`. A wait can end because its
request is in the queue (`UnderWay`): unless the lock timeout overtook it, the
one request in the queue is the last on its way to the server, or its reply is
the last on its way back, so that the late replies before it match nothing
(`Unique`). That a request finds an id at all is a count (`PendInv`): what is
under way is bounded, with a credit for each message a cleanup has yet to send.
`ActiveHeld` needs that no `<unlock>` for a lock the client believes in is under
way (`Unthreatened`), and `AllReleased` that whatever is not released is
accounted for by a lock state or a message (`Accounted`).

`Notifications_proofs`: for any number of sessions, any sizes of the log and of a
burst, any filters and any times. `NotInv` says of the log that it holds the last
events in order and that times do not decrease (`LogInv`), and of every
subscription (`Good`) four things. `InPlace`: a pointer is `Null` or the id behind
it, in the log; a replay that has sent nothing yet and lost its first entry knows
that id. `Ordered`: what was sent is sorted and does not reach past `lastmsgid`.
`Passed`: since the first event that was sent, nothing in the log up to
`lastmsgid` was left out. `Replayed`: what a replay has sent is all that was
asked for up to its place, the bounds of what is left are right, and once
everything is sent `replayComplete` is the next message.

Two arguments carry it. After a deletion the next entry is the first behind the
*id* of the place, whether or not the pointer survived (`NextIs`); and the
cleaning of the log keeps everything from the least place of a subscription on
(`CleanLog`), which also spares the entries a replay has yet to send, because no
replay is without a place when a round of passes ends (`Serving`). A replay
without a stopTime that finds nothing to send is told so in a round that goes on
(`going`), before another event can come. `ReplayWhole` is about a step: it
follows from what a pass may do to one subscription (`Serving`).

`Framing_proofs`: messages of any length and any contents that XML may have,
buffers, reads and chunks of any size, any number of messages. `TypeCorrect`
holds for every peer; `NoFramingError`, `GarbageJustAtBoundary` and
`MessagesInOrder` for one that waits for the `<hello>` of the server before it
sends in chunks (`~Pipelined`), because the read that holds the end of the
`<hello>` goes on with the base:1.0 reader (see below). `MessagesInOrder` is the
safety part of `ImplementsChannel`: every step of `Framing` is one of
`MessageChannel` or a stutter.

They rest on two assumptions about the constants. `SizeAssumption` is what
`ses.h` has: a buffer holds more than the end mark and more than a read, the
digits of every chunk size fit `startchunk`, and the output buffer has room
for data beside its framing. `MessageAssumption` says that a message ends with
">", does not end with "]]>" and does not contain the end mark "]]>]]>". The
second is needed: behind a message that ends with "]]>" the mark would be found
three bytes early.

The inductive invariant is `FInv`. Its heart is `Tracks`: the session has taken
the beginning of a frame of the next message, and what is on its way is the rest
of this frame and frames of the messages after it. A frame (`IsFrame`) is the
message with the end mark behind it, or chunks of any sizes. Every state of the
reader belongs to one place in a frame (`InFrame`): before a header, after some
digits of a size, in the data of a chunk, between chunks, in the end mark. The
buffers hold what was taken of the message, without gaps: all but the last are
full (`Packed`). `FrameByte` is one byte: the place moves on by one, there is no
error, and the last byte of a frame makes a message ready with exactly its
contents. `ReadReceived` goes from there to a read of any number of bytes, which
may complete several messages. `Shown` is what the XML reader sees: the length of
a message determines how much is in its last buffer, and hence whether the
reader goes past it (`SeenOld`, `SeenNew`).

A read is a recursion over its bytes, a chunk size one over its digits, and a
message a concatenation of buffers. What these compute is proved here all
the same, without an induction theorem that takes an operator: `Least` derives
from the well-foundedness of the order on numbers that a set of numbers has a
least one, `UpTo` that a set which contains 0 and with each number the next one
contains all, and `Iterates` that a recursive function is what its defining
equation says. With them a number that is written in decimal reads as itself
(so that any chunk size is understood), and splitting a message into chunks and
concatenating them gives the message.

The attempt showed one mistake of the model: the cases of `InBetween`
overlapped, so that which of them applies was a choice that TLC always made the
same way. It now distinguishes them as the code does, and `Numeral` is no longer
limited to two digits.

Only model-checked: liveness (`Served`, `HelloEnds`, `CcExpires`, `CatchesUp`,
`CommandEnds`, and that `ImplementsChannel` delivers every message), which is
out of the reach of the prover together with fairness. Every invariant and every
action property that a run checks and expects to hold is stated by a theorem.

## What the code does and a comment says it does not

Each of these has a run whose counterexample is the scenario.

| run | source | behaviour |
|---|---|---|
| `CommitKeeps` | `agt/agt_val.c:1578` | a container that was deleted in `<candidate>` and created again without one of its nodes: the new container has no mark of the deletion, so the commit merges it and leaves that node in `<running>` |
| `LateGrant` | `ycli/yangcli.c:3749` | a timeout starts the cleanup of `get-locks` while a `<lock>` is under way; it is granted afterwards, its reply matches no request, and nobody unlocks it |

Other behaviour of the code met while modelling, which no run singles out.

Datastores and commits:

- A session that ends with a partial lock leaves `<running>` in the partial-lock
  state (`ncx/cfg.c:1304`): nobody can lock it before a restart. `ncx/cfg.h:148`
  calls the state "partial lock active".
- A `<candidate>` filled from `<startup>` counts as clean (`ncx/cfg.c:693`), so
  releasing its lock does not discard it. `ReleaseDiscards` is checked without a
  distinct `<startup>`.
- A confirmed commit is pending although its backup could not be written
  (`agt/agt_ncx.c:2389`); its expiry loads an older one. `DatastoresStartup` has
  no failing backup.
- A session dropped for a message the server cannot dispatch
  (`agt/agt_top.c:137`) leaves its confirmed commit to the next session with its
  id. `CcOwnerLives` is checked and proved without such messages.
- An inline `<copy-config>` to `<startup>` writes the file and not the root in
  memory (`agt/agt_ncx.c:1257`), so a copy from `<startup>` reads the old
  contents until the next restart.
- A `<cancel-commit>` by persist-id rewrites a `<candidate>` that another session
  has locked (`agt_ncx.c:2440`): only the lock of `<running>` is looked at. That is
  why `LockProtects` does not speak of `<cancel-commit>`.
- A confirming commit writes the startup file although `<startup>` is distinct
  (`agt_ncx.c:2335`); `agt_val.c:6180` says it never does.
- A record whose COMMIT was refused is not undone in the instrumentation
  (`agt_val.c:3157`, "TBD: need to flag SIL partial commit errors"), and the
  restore of the backup that follows a failed rollback finds no difference in the
  tree, so it does not repair the instrumentation either.
- Nodes of another case of a choice that a commit deletes have no callback
  (`agt_val.c:1245`).
- A commit leaves `CFG_FL_DIRTY` of `<candidate>` set although nothing is left
  to commit (`agt_ncx.c:4336`), so a `<lock>` that follows is refused until a
  `<discard-changes>`.
- With `--startup-error=stop` the restore of an expired commit is stopped by a
  lock on `<running>`, since it runs as session 0, and the commit is forgotten
  all the same; so it is when the backup file is missing.
- A startup file that cannot be written after a commit breaks `MarksCoverEdits`:
  the marks are cleared before.
- A commit that is refused, by a callback or by a partial lock of another
  session, marks the refused leaf as deleted in `<candidate>` itself
  (`invoke_btype_cb`, `agt/agt_val.c:2775`; for errors of the validate phase also
  other nodes, `agt/agt_val.c:2495`), and nothing takes the mark back. The leaf
  is gone from `<candidate>`, but the next commit does not delete it from
  `<running>` unless the parent lost another child (`check_commit_deletes`,
  `agt/agt_val.c:1578`). `MarksCoverEdits` is therefore checked and proved without
  refusals; `DatastoresFaults` and `DatastoresStartup` have them.
- A callback below a node without one is not called for an edit from above it:
  `handle_subtree_node_callback` (`agt/agt_val.c:452`) does not look further down
  when a node has none (`agt/agt_val.c:742`). `agt/agt_acm_ietf.c:3348` registers
  one for `/nacm/groups/group` and none for `/nacm/groups`, so an edit of `/nacm`
  as a whole does not reach it. `Agrees` leaves such nodes out (`Reached`).
- `<restore>` changes `<running>` behind `<candidate>` and the startup file; the
  run `DatastoresMirror` and the proofs about it leave it out.
- An error in `load_errQ` is never removed, and makes later commits save
  an unconfirmed `<running>`; `NvMirrorsConfirmed` assumes an empty queue.
- APPLY is refused below a node whose own APPLY was accepted
  (`agt/agt_val.c:1819`): there is no undo record yet, so that node gets no
  ROLLBACK.

Server loop and framing:

- The queue entry of a session that ended makes `agt_ses_process_first_ready`
  return FALSE (`agt/agt_ses.c:870`), and the loop goes back to `select()` while
  others are queued.
- The XML reader sees bytes behind a message when its end mark lies across two
  buffers or its last buffer has no data (`GarbageAtBoundary`): `bufflen` is
  computed as the place in the buffer minus the length of the end mark
  (`ncx/ses.c:255`). The comment above it says that the reader should not see
  the end string.
- A peer that sends a base:1.1 request right behind its `<hello>`, in the same
  read, has it swallowed: the read goes on with the base:1.0 reader. The model
  has it as `Pipelined = TRUE`, which violates `FramesAccepted`; the comment at
  `ncx/ses.c:248` knows of the case.
- A "]" that is not part of the end mark is not tried again as its beginning
  (`accept_buffer_ssh_v10`); an empty message would be sent as a chunk of size
  0; the client takes a short `libssh2` write for a complete one
  (`mgr/mgr_ses.c:1466`).

Partial locks:

- A lock of a container does not protect what is below it: slots are set on the
  selected nodes only, and the checks look at a node and, for what a commit
  deletes, at the nodes below. The comment of `val_set_partial_lock` speaks of
  the whole subtree.
- An edit of a container checks the slots of the node in `<candidate>` or in the
  message, not of the one in `<running>`; clones of a tree copy slots
  (`ncx/val.c:1349` says that they should be empty there), and those become stale.
- A slot may outlive its lock by way of `<candidate>`: a commit that takes a
  locked leaf copies the slots to the leaf of `<candidate>` (`ncx/val_util.c:3661`),
  and `<partial-unlock>` or the end of the session clears them in `<running>` only,
  although `ncx/val_util.c:3468` says "Clear the partial lock throughout the
  value tree". A container above that is still marked is moved by a later
  commit and brings a leaf with a slot that points to a freed block. TLC finds
  this on a chain of three nodes in ten steps, with one session and one block.
  For the same reason a node may end up with locks of two sessions when the
  block is used again, so neither is a property of a run.
- A container that is replaced loses the slots of the nodes below it. The
  pointers of a lock to its nodes are looked after only for the locks of the
  node that is deleted (`ncx/val_util.c:3681`), so others dangle.

Notifications:

- The log grows past `--eventlog-size`: the entry that takes the place of the
  oldest is not counted.
- A replay whose start time is after the last event becomes live without a
  place in the log, and is sent all of it.
- A subscription with a stop time is sent the first event past it.
- With `--eventlog-size=0` and a small `--maxburst`, events that come while
  `replayComplete` is still to be sent can be deleted unsent.

yangcli-pro:

- An error on `<running>` or `<startup>` that is not a denied lock ends
  `get-locks` without a cleanup and without leaving its mode
  (`ycli/yangcli.c:5294`); the lock timeout does that, and with
  `--lock-timeout=0` nothing does.
- After the `<discard-changes>` the lock of `<candidate>` is still
  `LOCK_STATE_REQUEST_SENT` and is not asked for again, so `get-locks` fails
  whatever the discard has done.
- When the lock timeout goes ahead of a request that is still in the queue, its
  late reply is taken for that of the `<unlock>` that follows: `ActiveHeld`
  leaves these histories out (`"overtaken"`).
- `cleanup` decides whether a *failing* `get-locks` releases; the description in
  `yangcli-pro.yang` speaks of the time after it succeeds.

## What is not modelled

Pure I/O and data: parsing and writing XML and JSON, the YANG compiler, XPath,
the translators, command line handling, the byte pump of netconf-subsystem,
monitoring counters. They keep no state that later steps race on, or are
sequential algorithms over large data, better tested than model-checked.
libtecla is third-party; libtoaster and libsystem are examples. The server with
`--target=running` is not modelled. Access control evaluates its rules for one
message at a time, a sequential function of rules and nodes with a cache that
lives as long as the message. Timers are a list that only the idle branch of
the loop walks. The transaction id is a counter and a file of its own, which a
client may use to skip a `<get-config>`.

## Plan

What is left, in this order.

1. Nodes of `EditTransaction` deleted by a false when-stmt, which the code frees
   while an undo record may still point to them (`agt_val.c:3290`).
2. Composition of `ServerLoop` with `Datastores`: the confirmed commit and the
   locks of sessions that end in the loop.
