# redleaf, modelled

A TLA+ development beside redleaf, a small pre-forking HTTP server in C
(`src/redleaf/redleaf/`; paths below are relative to it). The modules say what
the server's processes, connections, script sessions and containers do, TLC
checks them on small instances, and TLAPS proves for every instance the safety
properties of all but the parser and the balanced trees, and that a child keeps the
service's promise. `PROJECT.json` maps each definition to the lines it stands for.

## 1. The system

| component | state it keeps | operations | talks to |
|---|---|---|---|
| process pool (`src/serv.c`, `main_process`) | `chlds[]`, `load_chld[]` (shared memory), the listening socket | fork `max/2+1` children, SIGINT handlers of parent and child, `shutdown_socket` | children by `kill`/`wait`; all of them share one socket |
| worker event loop (`src/serv.c`, `_serv_proc`) | `connections[]`, `fdrdset`, `total_connections` | `new_connection`, `read_connection`, `write_connection`, `close_connection`, read timeout | kernel queue, HTTP sessions, pages, modulas |
| HTTP session (`src/http.c`) | `state`, `stream`, `ht_req` of one connection | `http_session_open/process/close`, `parse_http_request` | called by `read_connection`, `close_connection` |
| page generation (`src/http.c`, `src/page.c`) | one `page_t` per answer | `page_t_generate`, error and directory pages | page cache, modulas |
| page cache (`src/page.c`) | a splay tree of pages, their `ref` and `last_access`, `cached_pages` | `lookup_cache`, `insert_cache` with its eviction, rebuilding a page in place | `page_t_generate`, `close_connection`, libdata |
| modulas (`modulas/cgi_modula.c`) | two pipes and a script per session | session open/read/write/close | `page_t_generate`, `read_connection`, `write_connection` |
| modula loader (`src/modula.c`) | a tree of loaded modulas by mime type, their `dlopen` handles | `conf_walk_modulas`, `modula_load_hook`, `modula_lookup` | configuration, page generation |
| configuration (`src/conf.c`) | the text of the file, then a tree of sections, each with its argument and variables | `read_syn_tree` and what it calls; the lookups of a value | loader, `main_process`, page generation |
| libdata (`src/libdata/`) | a container of nodes in one of five implementations: list, plain, red-black, splay, AVL tree | insert, delete, lookup, bounds, walking, conversion | page cache, configuration, modula list |
| liballoc (`src/liballoc/`) | stream strings; buddy, map and pool allocators | append; alloc and free | HTTP sessions; the allocators have no caller |
| misc, main | none that lasts | options, dates, URI decoding, names to ids; the order of the start | start-up |

How they interact. The parent forks children that each run the loop of
`_serv_proc` on the same listening socket. A pass of the loop is: `select()`;
`new_connection()` when the listening socket is ready; then for each slot up to
the first NULL `read_connection()` when its bit is set, else the timeout; then
`write_connection()` when `rxstat` is `ST_DONE`; then `close_connection()` when
both states are final. `read_connection()` feeds 31 bytes at a time to
`http_session_process()`, which says whether to go on reading, read a body, or
generate the page. A page may be a modula session, a script behind a pipe that
`write_connection()` reads 16 bytes at a time.

What is hard. One thread, but clients act between any two system calls;
several children race for one `accept()` that blocks; a signal may find a
process in any call; three calls of a child can block it (`accept`, `waitpid`,
the send loop); writes are partial; two counters are shared. The containers are
sequential, but their invariants need long mixed sequences to break. One page
may be sent by several connections while its file changes, with a reference
count that is only ever lowered. The start is a chain of calls each of which may
fail with half of the work done, over a text that is walked by adding lengths.

What makes each part correct:

* worker: no connection out of the scan's reach, one slot per client, a read
  set without dead or forgotten descriptors, an answer exactly once and only
  after the request, closing only what is finished, counters that differ from
  the table by the connections that were not taken, every complete request answered;
* pool: each client with one living process, a shutdown that ends, a parent
  that ends last, nobody waiting but behind a call that blocks or for want of
  reading;
* modulas: no descriptor lost, the script's output in order and whole, no child
  blocked when the output fits the pipe;
* page cache: when what a connection sends may be freed or built anew under it,
  the count is the number of nodes, what is one client's own is never handed to
  another;
* start: what is read is what was written, a registered modula is complete, no
  child serves with the ids that started the server;
* libdata: whichever implementation, the same ordered bag.

## 2. The modules

| module | models | composition |
|---|---|---|
| `Worker` | one child's loop, its table, sessions and clients | |
| `Service` | what a child promises its clients | abstract |
| `WorkerService` | the refinement mapping from `Worker` to `Service` | `INSTANCE Service WITH` |
| `Prefork` | parent, children, signals, the shared socket | a pass of `Worker` is one step, or two when it stops in between |
| `Cgi` | modula sessions, scripts, pipes, the send loop, byte by byte | refines the one step `Flush` of `Worker` in detail |
| `PageCache` | `page_t_generate()`, the cache, the files, and the connections that send pages | what `Worker` takes as the kind of a page is chosen here |
| `Conf` | the parser of the configuration and the lookups in its tree | |
| `Startup` | `main()`, the modula loader, `main_process()` to the fork loop, the first request's lookups | extends `Conf`; `Prefork` goes on from its `serve` |
| `Tree` | the algorithms of the five containers, as operators | |
| `Usrtc` | the container interface, conversions, duplicates | uses `Tree` |
| `SortedBag` | what a container promises | abstract; `INSTANCE` in `Usrtc` |
| `MCWorker`, `MCCgi`, `MCUsrtc`, `MCPageCache`, `MCStartup` | the instances for TLC | |
| `WorkerProofs`, `WorkerServiceProofs`, `PreforkProofs`, `CgiProofs`, `PageCacheProofs`, `StartupProofs`, `TreeProofs`, `UsrtcProofs` | theorems | extend the module they are about; the second of `Worker` builds on the first, `UsrtcProofs` on `TreeProofs` |

**Worker.** `conn[i]` is `*connections[i]`; `alloc` tells a NULL pointer from an
allocated slot whose socket is -1. `pc` and `cur` are the place in the loop and
its index. Each outcome of a handler is an action with the conditions of the
code: `read_connection` is `ReceiveError`, `ReceiveMore`, `ReceivePage`,
`ReceiveBody`; `write_connection` is `RespondBody` (a write that takes all or
part), `RespondLater`, `RespondBroken`, `RespondDone`, `RespondFile`,
`RespondModula`, `RespondModulaDone`, `Flush`. Sizes are in units: one unit of a
request is one `read()`, one unit of `Window` is what `write()` may take. The
fields a request has (method, malformed or not, where its head ends) and the
kind of page it leads to are inputs. A NULL or freed pointer that is followed
ends the child: `pc` holds the reason. Where the code reads memory it never set
(`ht_req` of an empty request, `emod`) both outcomes are steps. Time is the age
of a connection that is being read, in ticks, capped at `RdTimeout + 1`.

**Prefork.** `child[i]` is in `select`, in `accept`, in its pass (`serve`),
stopped in it (`blocked`), not yet with its handler (`fresh`), or ended. A pass
comes to every connection (`Visit`): a complete request gets its page on its way,
and the next pass finds it sent and closes. A client that does not read fills its
socket (`Stall`) and is passed over until it reads (`Drain`). `Block` stops a
pass after some of the connections, in `waitpid()` (`cgi_modula.c:227`), in the
read of a pipe or in the send loop (`serv.c:399-418`); `Resume` may end that, or
never come. `Backlog` is the kernel's queue.
`shutdown_socket()` in a child shuts the socket of all of them: `accept()` then
fails and resets what is queued. A `fork()` that fails turns the parent into a
child, as in the code, where -1 is not greater than 0.

**Cgi.** A byte of output is its number; `base`, `dta` and `cc` are the buffer
`rd[]`, the pointer and the counter of the send loop. A failed `write()`
returns -1 into a `size_t`, so neither test of it holds: `cc` grows by one and
`dta` steps back, `WriteFails`. `Loop` is the condition `cc != rres` after
`cc -= rres`; what it leaves behind is kept in `lost`. A session goes from
`opening` to `head` (a GET, whose request is read) or `body` (a POST in `Posted`,
whose request never counts as read), and from `head` to `live` when the head of
the answer is out. `close_connection()` closes it at the end of the output
(`ReadEnd`), after a failed write of the head (`HeadBroken`) or after an error on
reading a POST (`ReadFails`); one that timed out (`TimesOut`) stays open for good.
After a POST's page `read_connection()` goes on with the index of the next slot,
which may have no page (`PostCrash`).

**PageCache.** A call of `page_t_generate()` is one step: the child is one
thread. Between steps files change (`Change`) and pages age (`Tick`); within one
step a second `stat()` may find a file gone that the first found. A page's
`block` stands for the memory its head and body point into and is numbered anew
when `gen_error_page()` or `update_page()` builds it again in place. The key of
a new page is allocated and never written: it is any of `Keys`. `slow` says
whether the child may be held up between the two calls of `time()` in
`lookup_cache()` and its caller. `Hit`, the six `Miss...`, `AskModula` and
`BadRequest` are the paths of the function; `TakeHead`, `Sent`, `Broken` are the
parts of `write_connection()` and `close_connection()` that touch a page. An
eviction frees a page and a node that is still linked, so what the code does next is
undefined and the model ends there (`pc = "wild"`); the `crash_...` values are
the NULL pointers that are followed, `exit_nomem` the allocation that fails for a
Range from beyond the end of a small file. A page whose file was not found has the
time of day for its `stat` (`Lost`).

**Conf, Startup.** A text is a sequence of characters; the prefixes "General"
and "Modula" are shortened to `G` and `M`. A file is chosen together with the
sections it was written from, so that what is read can be compared with what was
meant (`Formed`). `Strip`, a `ReadSection` and a `BuildSection` for each section follow
`read_syn_tree()`; where the code reads past its buffer or
through an unset pointer, `pc` becomes `fault`. Two writes out of bounds are passed
over, because what they hit is not in the model: `read_section()` puts its end mark
one element behind the array after the last section (`conf.c:371`), and a NUL one
byte behind the text when the file has no blank and ends with a brace (`conf.c:363`). In `Startup` the answers of
`dlopen()`, of each `dlsym()`, of the modula and of the kernel (`bind`, `listen`,
`setegid`, `seteuid`) are left open one call at a time.

**Tree, Usrtc.** A container is a record of link functions (`kid`, `parent`,
`tag` for colour or balance, `count`), `Nil` the sentinel. Every operator
returns the container after the C function. A loop is `Iterate` of its body for as
many rounds as there are nodes: a body that returns what it was given has met the
loop's condition. `Usrtc` makes one step of each call
of the interface, since no container is shared between processes.

## 3. The runs

The numbers of states are those of TLC with the configuration in this directory.

| run | bounds | what it shows |
|---|---|---|
| `core` (`Worker_core.cfg`), 182837 states | 3 clients, 2 slots, a request of one read with an answer of 2 units, windows of 1; resets | one slot each with more clients than slots, so drops and reuse of slots happen; no close before the answer is out; every complete request is closed, every queued client taken |
| `faults` (`Worker_faults.cfg`), 1068845 | 2 clients, 2 slots, nine kinds of request, all faults | slots, the read set, readiness within a pass, pages, delivery and the order of a request's phases with slow requests, oversized heads, modulas that fail, big files, POST, timeouts, failed `accept`, another child winning it; the child implements `Service` |
| `prefork` (`Prefork.cfg`), 303205 | `max_connections` 2 (two children), 3 clients, all faults | who owns a client, that the parent ends last, that shutdown ends; a client waits only behind the blocking `accept`, a pass that stopped, or for want of reading |
| `trees` (`Usrtc.cfg`), 56912 | 7 nodes, keys in pairs (duplicates), all implementations and conversions | structure, balance, lookups; each container is a `SortedBag` |
| `cgi` (`Cgi.cfg`), 28071 | 2 scripts of 4 and 1 bytes, the second of a POST, pipe of 3, buffer of 3, socket of 2, 6 descriptors, 2 failed writes each | descriptors, what a client has of the output, when a session is closed, where the child may block for good, and that a GET is served to its end |
| `pages` (`PageCache.cfg`), 768362 | 2 connections, 3 URIs (one a modula's), a cache of 1, 3 pages, 3 requests, each file changed once | the only two ways in which a page is freed or built anew while it is sent, the count, what is private; with evictions and stalls |
| `startup` (`Startup.cfg`), 106550 | 14 files of one to four sections, two of them with a comment or a blank at every place, 16 texts not of the form | what is read is what was written; the registry whatever a modula lacks; the ids; that a complete file starts |
| `readerror`, `post`, `halfwrite`, `dupes`, `unnoticed` | as small as the case allows | what the code does against its comments: section 6 |

Why the bounds are enough. Two slots are the least for which the order of
slots, a free slot before a used one, and "the next slot" differ; the third client of
`core` finds the table full. A two-read request leaves room for a timeout, an end of file
and a reset in the middle. A window of one with an answer of two units makes
every answer a sequence of partial writes. Seven nodes with keys in pairs reach
every rotation and recolouring case of the four trees (TLC's coverage of the
run leaves no expression of `Tree` unevaluated) and a full tree of three levels. Two
connections and three requests let one page be found by a second connection
while the first sends it, and be closed and found again; two keys of which
neither is a modula's make both a hit under a foreign key and a miss; the second
page in a cache of one evicts. With two children a child waits in `accept()` for what another
took, and the third client finds the table of one child full. The documents hold each kind of section before,
after and between the others, and each way of lacking a name. The pipe of
three with a script of four makes the script block; a buffer of three over a
socket of two makes each write partial, one of exactly half included; a session
that is open while another opens uses all six descriptors. Named bounds that cut behaviour off:
`Slips` bounds the failed writes of the send loop, which in the code is a spin
of some 2^32 rounds, until `cc` has come round to -1 and ends it, and `RdTimeout + 1` caps the age, after which no test tells ages
apart. `total_conn` and `lost` only count up, at most once per client, because a
client connects once. `MaxPage`, `MaxTime` and `MaxRequest` bound the history of
`PageCache`; `Timeout` caps the age of a page, as `RdTimeout + 1` does.
Symmetry over clients is used in `faults` and `readerror` only, over connections in `pages`;
the action properties and the refinement that run with it are safety properties,
checked step by step, and treat all clients alike.
`CHECK_DEADLOCK` is off where the system may stop: a crashed child, a server
that has exited, a container whose walk left its memory, a start that is over, a
cache that has answered its requests.

## 4. Fairness

* `Worker`: weak fairness of the child as a whole (its `select()` has a timeout
  of microseconds, so the loop never sleeps for good) and of each client's
  `Drain`. A client that never reads is thereby left out: one that does not
  read keeps its connection for ever, since writing has no timeout.
  Clients need not send. `core` has plain GETs only: for a modula the child may
  stay in one call for good, which `Cgi` and `Prefork` are about.
* `Prefork`: weak fairness of the parent, of its handler, of each child's loop
  and of signal delivery: the scheduler's promise. Not assumed: that a child in
  `accept()` gets a connection when others take them first, that a pass which
  stopped goes on (`Resume`), or that a client reads (`Drain`).
* `Cgi`: weak fairness of the child's current step and of the scripts; strong
  fairness of opening, of sending the head and of beginning a turn at a session, because the child
  passes over every slot in each round but is between passes (`pc = "pass"`)
  only now and then. Nothing makes a client read or go away, and `Served`, which is about
  GETs, therefore has the premise that the child comes back to its pass again and again.
* `Startup`: weak fairness of the one sequential program it is.
* `PageCache`: none, it has safety properties only.

## 5. What is proved

TLAPS proves, for any number of clients, slots, children, sizes and requests,
from the named assumptions on the constants only:

* `WorkerProofs`: `TypeCorrect`. A handler reads `conn[cur]`, so the type of the
  table needs that `cur` is an open slot while a handler runs (`InHandler`).
* also `WorkerProofs`: `NoneBehindNull`, `OneSlotForEach`, `ReadSetExact`,
  `PageForAnswer`, `DeliveryExact`, `ClosedOnlyWhenDone`. None is inductive alone.
  `TableInv` adds who owns a slot and what the kernel then knows of its client
  (`OwnerInv`), in which states a connection is watched (`WatchInv`) and how
  `rxstat`, `wxstat`, `hb_switch`, page and `data_len` go together (`AnswerInv`).
  The first free slot is the one after the used ones, which is why
  `new_connection()` keeps the prefix. The action property follows from the same
  invariant: closing wants `wxstat` final, and that is set either with nothing
  left or for a client that is gone.
* `WorkerServiceProofs`: `RequestInOrder`, `ReadyStaysReadable`, `CountersExact`.
  `PagedInv` says that a page made before its request is in is that of a POST, `ReadyInv` that
  a bit of `trdset` not yet looked at belongs to the connection it was computed
  for; the counters follow from lemmas on the cardinalities of the clients with
  a slot, closed, refused and lost, one client moving between them at each step.
* also `WorkerServiceProofs`: `PromiseKept`, the refinement of `Service`. Each step is
  mapped client by client: a lemma for each of what can happen to one client
  (`LackInv`: a connection that is broken off still lacks a unit of its answer, so
  that it is not taken for served; `QueueInv`: so does one still in the queue), and
  that all others keep their phase.
* `PreforkProofs`: `PoolType`, `OneOwnerEach`, `ParentLast`. Beside the owners the
  invariant says which children are not forked yet (`Unforked`), without which
  `Fork` could overwrite one that holds clients.
* `CgiProofs`: `CgiType`, `DescriptorsExact`, `ClosedAtEndAlways`,
  `OutputKeptAlways`. `OutputKept` has no premise about the half write: what the
  loop left is in `lost`, and every byte it is through with is there or with the
  client (that `lost` is not empty is the run `halfwrite`). The invariant ties the
  state of a session to the place of the child, says that `base + dta + cc` is what
  was read but for what was left, and how far `dta` may have stepped back: every
  byte before it is with the client; and that a script that ended has printed all
  of its output, so that an empty pipe then is the end of it.
* `PageCacheProofs`: `TypeCorrect` (with the count of the cache), `OneClientOnlyAlways`,
  `SendingKeptAlways`, from one invariant that holds while
  `pc = "run"`: a page that a connection holds is made (`Held`), a page that was sent has
  a `ref` below zero (`GoodPage`), only pages for all are cached
  (`Cacheable`), and a private page has one holder (`Alone`). A page that
  was found was touched, so its age is 0 and below
  `Timeout` when it is tested (`Timeout > 0` is the assumption used), unless the
  clock jumps in between; the eviction is the one step that frees.
* `StartupProofs`: `TypeCorrect`, `RegistryExactAlways`, `ServesAsRunUserAlways`,
  for any set of files.
* also `StartupProofs`: `ReadsBackAlways`, for any set of files of which those
  called good are `Formed`: any number of sections, each with a name, an argument
  and any number of variables made of characters that are no blank and no sign of
  the form, and a text that is those sections once its comments and blanks are out
  (`GoodFiles`, evaluated by the run on the files it starts from). The text is put together by
  `FlattenSeq`; `FlattenCut` gives the places where its pieces end, so that what
  `Found`, `Advance` and `Exprs` compute from the first places of a character can
  be compared with lengths (`Layout`, `SectionRead`; `Entry`, `EntryRead`). The
  counts of the signs (`Holds`, `HoldsFlat`) are what `read_syn_tree()` and its
  callees test before they go on. `ReadInv` is the inductive invariant: `fbuf`
  stands behind the sections read, and from there on the text is as written,
  although the closing brace of an empty section has been raised by two.
  `CountFlat`, `FlattenGrows` and `ExprsRead` are inductions over the pieces, stated
  for a set of numbers (`SetInduction`), which the provers can do.
* `TreeProofs`, `UsrtcProofs`: `Typed`, `LinkedWell`, `SearchedExactly`,
  `StaysBalanced` and the refinement `SortsItsNodes`, for any finite set of nodes and any keys. That the
  links make a tree is a statement about every way down, which has no direct form
  without induction over the tree. The proofs use ghosts instead: `pos` numbers the
  nodes from left to right, `b` gives the two numbers between which the subtree of
  a node stands, and `KidFits` says of each link alone how the two go together
  (`Shape`). That is an invariant of single links, so that a rotation, the hanging
  of a leaf and each case of `usrtc_tree_delete()` are a few links with changed
  bounds; the walks, the searches and the splaying are loops, treated by
  `IterateEnds`: a set that every round keeps and a measure that falls. `Ordered` is
  the inductive invariant: some numbers fit, and they ascend with the keys. An
  insertion opens a place behind the keys that are not greater (`LeavingEnds`,
  `ListFromEnds`), a deletion closes one, all else keeps the numbers, which is the
  refinement.
* The balance of the red-black tree gets a ghost of its own: `h` counts the black
  nodes below each node, and `Even` says of each link alone how the counts and the
  colours at its two ends go together. While an operation is under way one rule is
  broken in one place, and the place is a parameter: `Pale` has the red node whose
  red parent an insertion still has to deal with (`RedPair`), `Lack` the link below
  which a deletion has left one black node too few (`Lacking`). A round of
  `redblack_insert()` moves the pair two levels up (`RecolourKeeps`), a round of
  `redblack_delete()` the lack one level (`LackRises`), a red sister is turned first
  (`SisterTurn`), and the last rotations do away with it (`OuterTurn`, `InnerTurn`,
  `FarTurn`, `NearTurn`). That a brother or a sister of the node is always there, so that no
  rotation turns about a missing child, follows from the counts (`LackingKin`).
  `redblack_delete()` has the root painted red while its loop runs, so the colours
  that `Even` counts are those under a black crown (`Crowned`).
  `BlackHeight`, the recursive function of the property, is shown to be `h` by
  induction over the room of a subtree between its bounds (`BlackCounts`).
* All theorems of `UsrtcProofs` assume `Settled`: the implementations in use are
  the plain and the splay tree, converted into each other or not, or the list, or
  the red-black tree. The server itself uses only the splay tree (`page.c:51`,
  `modula.c:45`).

`PROJECT.json` lists the 30 theorems with the property of a run that each is about.

Only model-checked: liveness under fairness (`Answered`, `Accepted`,
`ServedOrStalled`, `ShutdownEnds`, `OpenReturns`, `Served`, `Starts`); of the containers the AVL
tree, and the conversions that build a list or build a tree from one.

## 6. Where code and comments part

Five are runs that end in a counterexample (`PROJECT.json`, "findings"):

* `readerror`: a read error before a page exists ends the child (`serv.c:301`);
* `post`: a POST gets its page made and is never answered (`http.c:246`,
  `Changelog:3`), and a connection that timed out while it was read, as this one
  then does, is never closed, whatever its client does (`serv.c:263`, `273`);
* `halfwrite`: a write of exactly half of what is left ends the send loop, "while
  our 16 bytes will not written try to send it" (`serv.c:407`);
* `dupes`: the test of `dupes_allowed` is inverted, so the default tree keeps
  duplicates (`tree.c:77`, `184`); `IsSortedBag` says what such a tree does, which
  is not what those comments say;
* `unnoticed`: `ref` is lowered at each close and raised nowhere, so a page that
  was sent once is "currently used via connection" for good (`http.c:338`,
  `serv.c:299`) and never checked against its file (`http.c:340`, `342`). The
  other way round, `ref` is 0 while the first connection has its page.

Other comments that the code does not keep, modelled as the code is and without a
run of their own:

* `serv.c:65`, "current connections on child": `curr_conn` also counts accepts that
  failed or were dropped (`serv.c:246`). `CountersExact` proves by how much.
* `page.c:69`, "destroy the last cached page, in the case of it has a far access
  time": the page evicted is the one with the greatest key, asked for lately or
  not (`Insert`).
* `page.h:38`, "url of the page": a page stands in the cache under a key that was
  never written (`http.c:368`, `Keys` in `PageCache`).
* `conf.c:203`, "Error reading config file, using defaults.": there are none, and
  the start ends in a wild read (`WalkNothing`).

Also seen, and modelled as they are; no comment says what was meant:

* `serv.c:545`: the body of a POST goes to the next slot's modula
  (`BodyTarget`). A modula that cannot be opened ends the child. A `fork()` that
  fails turns the parent into a child, and SIGINT to it leaves the other children
  running.
* `http.c:376`: for every URI but `/` the file name is never allocated, and the
  answer is a cached 404 page (`MissName`). `http.c:396`: the room for an index
  file's name is 12 bytes, so only under `/` is one found (`Chosen`).
  `http.c:432`: a Range from beyond the end of a small file ends the child, and
  `http.c:439`: a page of a part of a file is cached as that file's page
  (`MissFile`).
* `page.c:72`: the node of an evicted page stays linked (`Insert`).
* `conf.c:166`: without a General section the lookup reads
  a section that is not there (`Socket`). `conf.c:454`:
  the search for a section runs one too far (`MimesReadable`). `modula.c:175`: a modula
  without a mime type is compared through NULL once there are two (`Register`).

## 7. What is not modelled

* liballoc's allocators: no caller, the one call in `main.c:84` is commented out;
  a session's stream string is in `Worker` as its length.
* File sessions (`src/file.c`): nothing creates one. What a big file does
  instead is `RespondFile` of `Worker` and `Sent` of `PageCache`.
* The text of directory listings (`src/http_read_dir.c`), heads, error pages,
  dates, options and URI decoding: formatting, without state that outlives the call.
* `parse_http_request()`'s text: what it finds in a request is an input of
  `Worker`, every combination of which is taken.
* `general_host_init()` and the `get_*_variables()` without caller;
  `upper_bound` (`tree.c:228`), without caller; a `root_dir` that is a plain file.
* In `main_process()`: a `select()` that fails, `mmap()` of `load_chld` failing,
  and its room, one entry short of what is used (`serv.c:134`), which a whole page
  of memory hides.

## 8. Plan

Done, in this order: `Worker` with `Service`, `Prefork`, `Tree`/`Usrtc` with
`SortedBag`, `Cgi`, their proofs; `PageCache`, `Conf`, `Startup` with theirs;
the refinement of `Service`, the counters and `Cgi` proved; `Tree` and
`Usrtc` proved for the containers the server uses and for the red-black tree,
`ReadsBack` proved. Possible next:

1. `parse_http_request()` as operators over tokens against a reference, so that
   the fields `Worker` takes as inputs are derived.
2. `PageCache` composed with the slots of `Worker`: the page of a slot as its
   state instead of its kind.
3. The AVL tree, with the heights as ghosts in the way the red-black tree has its black
   heights; then the conversions, and the theorems of `UsrtcProofs` without `Settled`.
4. `upper_bound` and `load_chld`'s length, if they get a caller or a guard.
