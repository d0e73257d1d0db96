------------------------------ MODULE PageCache ------------------------------
(***************************************************************************)
(* The pages of one child: page_t_generate() of src/http.c, the cache of   *)
(* src/page.c it keeps them in, and the connections that send them.        *)
(*                                                                         *)
(* The child is one thread: a call of page_t_generate() is a step.  The    *)
(* files change and time passes between steps, and a second file system    *)
(* call within one step may find what the first did not.                   *)
(*                                                                         *)
(* What a page is sent from is its block, the memory head and body point   *)
(* into; it is numbered anew each time the page is built again.  The key   *)
(* of a new page is rl_malloc()ed and never filled in (http.c:368): it     *)
(* reads as whatever the memory held, one of Keys.  Keys are numbers in    *)
(* the order of strcmp().  What the child cannot be followed through ends  *)
(* the model, and pc then holds the reason: an eviction, after which the   *)
(* tree holds a node that was freed, a NULL that is dereferenced, an       *)
(* allocation that fails.                                                  *)
(***************************************************************************)
EXTENDS Integers, FiniteSets

CONSTANTS
    Conn,        \* the connections
    Uri,         \* what they may ask for, a set of numbers
    Root,        \* "/", one of them
    Modulas,     \* the URIs with the mime type of a modula
    Keys,        \* what the memory of a key may hold, URIs among it
    CacheMax,    \* 65535
    Timeout,     \* CACHE_TIMEOUT, in ticks
    MaxPage,     \* bound: pages made
    MaxTime,     \* bound: changes of each file
    MaxRequest   \* bound: requests answered

ASSUME UriAssumption == Root \in Uri /\ Modulas \subseteq Uri \ {Root}
ASSUME KeyAssumption == Keys \subseteq Int /\ Uri \subseteq Int
ASSUME BoundAssumption == /\ CacheMax \in Nat \ {0}
                          /\ Timeout \in Nat \ {0}
                          /\ MaxPage \in Nat \ {0}
                          /\ MaxTime \in Nat
                          /\ MaxRequest \in Nat

VARIABLES
    pc,           \* "run", or why the model ends
    layout,       \* the form of root_dir: "dir/", "/" or "dir"
    slow,         \* whether the child may be held up between two time() calls
    size,         \* what stat() finds of the root directory and of its index
    mtime,        \* and when it says each was changed
    pages,        \* the struct page_t made so far, 0 the static one
    cache,        \* the pages linked in cache_uri
    cached_pages, \* the cache's own count
    conn,         \* what each connection is sending
    served        \* requests answered

vars == <<pc, layout, slow, size, mtime, pages, cache, cached_pages, conn, served>>

PageId == 0 .. MaxPage
File   == {"root", "index"}
Kind   == {"none", "error", "listing", "file", "part", "big", "moved",
           "modula", "bad", "freed"}

PageType ==
    [kind  : Kind,                     \* op, and what the content is
     key   : Keys \cup Uri,            \* uri
     for   : Uri,                      \* history: the request it was made for
     file  : File \cup {"null"},       \* filename
     block : Nat,                      \* head and body
     stat  : 0 .. MaxTime,             \* last_stat
     ref   : Int,
     age   : 0 .. Timeout,             \* time since last_access, capped
     used  : BOOLEAN]                  \* history: sent once

TypeOK ==
    /\ pc \in {"run", "wild", "crash_nopage", "crash_moved", "crash_nofile",
               "exit_nomem"}
    /\ layout \in {"dir/", "/", "dir"}
    /\ slow \in BOOLEAN
    /\ size \in [File -> {"gone", "small", "large"}]
    /\ mtime \in [File -> 0 .. MaxTime]
    /\ pages \in [PageId -> PageType]
    /\ cache \subseteq PageId \ {0}
    /\ cached_pages \in 0 .. CacheMax
    /\ Cardinality(cache) = cached_pages + (IF pc = "wild" THEN 1 ELSE 0)
    /\ conn \in [Conn -> [at : {"idle", "ready", "sending"}, page : PageId,
                          block : Nat]]
    /\ served \in Nat

NoPage == [kind |-> "none", key |-> Root, for |-> Root, file |-> "null",
           block |-> 0, stat |-> 0, ref |-> 0, age |-> 0, used |-> FALSE]

Init ==
    /\ pc = "run"
    /\ layout \in {"dir/", "/", "dir"}
    /\ slow \in BOOLEAN
    /\ size \in [File -> {"gone", "small"}]
    /\ mtime = [f \in File |-> 0]
    /\ pages = [p \in PageId |-> NoPage]
    /\ cache = {}
    /\ cached_pages = 0
    /\ conn = [c \in Conn |-> [at |-> "idle", page |-> 0, block |-> 0]]
    /\ served = 0

filesUnchanged == UNCHANGED <<layout, slow, size, mtime>>
cacheUnchanged == UNCHANGED <<cache, cached_pages>>

-----------------------------------------------------------------------------
(***************************************************************************)
(* The files and the clock.                                                *)
(***************************************************************************)
Change(f) ==
    /\ pc = "run"
    /\ mtime[f] < MaxTime
    /\ \E s \in {"gone", "small", "large"} : size' = [size EXCEPT ![f] = s]
    /\ mtime' = [mtime EXCEPT ![f] = @ + 1]
    /\ UNCHANGED <<pc, layout, slow, pages, cache, cached_pages, conn, served>>

Aged(k) == IF k.age < Timeout THEN [k EXCEPT !.age = @ + 1] ELSE k

\* Only the cache reads last_access.
Tick ==
    /\ pc = "run"
    /\ pages' = [p \in PageId |-> IF p \in cache THEN Aged(pages[p]) ELSE pages[p]]
    /\ UNCHANGED <<pc, cache, cached_pages, conn, served>>
    /\ filesUnchanged

\* stat() of a page's file: what it finds, where there is anything.
StatOf(f) ==
    CASE f = "null" -> "gone"  \* EFAULT
      [] f = "index" /\ size["root"] = "gone" -> "gone"
      [] OTHER -> size[f]

-----------------------------------------------------------------------------
(***************************************************************************)
(* page_t_generate(): every answer goes to a connection that is idle.      *)
(***************************************************************************)
Asked(c) ==
    /\ pc = "run"
    /\ conn[c].at = "idle"
    /\ served < MaxRequest

Give(c, p) ==
    /\ conn' = [conn EXCEPT ![c] = [at |-> "ready", page |-> p, block |-> 0]]
    /\ served' = served + 1

\* A request that was not understood: the one static page.
BadRequest(c) ==
    /\ Asked(c)
    /\ pages' = [pages EXCEPT ![0] =
                   IF @.kind = "none" THEN [NoPage EXCEPT !.kind = "bad", !.block = 1]
                                      ELSE @]
    /\ Give(c, 0)
    /\ UNCHANGED pc
    /\ cacheUnchanged
    /\ filesUnchanged

Unmade == {p \in PageId \ {0} : pages[p].kind = "none"}
Fresh  == CHOOSE p \in Unmade : \A q \in Unmade : p <= q

Made(kind, u, f) ==
    [NoPage EXCEPT !.kind = kind, !.for = u, !.file = f, !.block = 1,
                   !.stat = IF f = "null" THEN 0 ELSE mtime[f]]

\* A page whose file was not found has the time it was made for last_stat.
Lost(k) == {[k EXCEPT !.stat = s] : s \in 0 .. MaxTime}

\* Mutant: the page goes to the cache all the same.
PrivateCached(c, k) ==
    /\ Unmade # {}
    /\ cached_pages < CacheMax
    /\ pages' = [pages EXCEPT ![Fresh] = [k EXCEPT !.key = k.for]]
    /\ cache' = cache \cup {Fresh}
    /\ cached_pages' = cached_pages + 1
    /\ Give(c, Fresh)
    /\ UNCHANGED pc

\* A page that no other request will find.
Private(c, k) ==
    /\ Unmade # {}
    /\ pages' = [pages EXCEPT ![Fresh] = k]
    /\ Give(c, Fresh)
    /\ UNCHANGED pc
    /\ cacheUnchanged

\* Nothing but the model ends: pages and connections stay as they are.
Ends(why) ==
    /\ pc' = why
    /\ UNCHANGED <<pages, conn, served>>
    /\ cacheUnchanged

\* The session of a modula opens, or gen_error_page() gets a NULL page.
AskModula(c, u) ==
    /\ Asked(c)
    /\ u \in Modulas
    /\ \/ Private(c, Made("modula", u, "null"))
       \/ Ends("crash_nopage")
    /\ filesUnchanged

\* insert_cache().  At the limit the last page is freed, whoever sends it,
\* and its node destroyed while the tree still holds it: from there on the
\* tree has one node more than the count.
LastCached == {p \in cache : \A q \in cache : pages[q].key <= pages[p].key}

\* Mutant: the limit is tested before the page is counted.
InsertLate(c, k) ==
    /\ Unmade # {}
    /\ \E key \in Keys :
          /\ cached_pages <= CacheMax
          /\ pages' = [pages EXCEPT ![Fresh] = [k EXCEPT !.key = key]]
          /\ cache' = cache \cup {Fresh}
          /\ cached_pages' = cached_pages + 1
          /\ UNCHANGED pc
    /\ Give(c, Fresh)

Insert(c, k) ==
    /\ Unmade # {}
    /\ \E key \in Keys :
          \/ /\ cached_pages < CacheMax
             /\ pages' = [pages EXCEPT ![Fresh] = [k EXCEPT !.key = key]]
             /\ cache' = cache \cup {Fresh}
             /\ cached_pages' = cached_pages + 1
             /\ UNCHANGED pc
          \/ /\ cached_pages = CacheMax
             /\ \E p \in LastCached :
                   pages' = [pages EXCEPT ![p].kind = "freed",
                                          ![Fresh] = [k EXCEPT !.key = key]]
             /\ cache' = cache \cup {Fresh}
             /\ pc' = "wild"
             /\ UNCHANGED cached_pages
    /\ Give(c, Fresh)

Cached(u) == {p \in cache : pages[p].key = u}

Missed(c, u) ==
    /\ Asked(c)
    /\ u \notin Modulas
    /\ Cached(u) = {}

\* snprintf() into a buffer that was never allocated: the name stays NULL.
MissName(c, u) ==
    /\ Missed(c, u)
    /\ u # Root
    /\ Insert(c, Made("error", u, "null"))
    /\ filesUnchanged

MissRoot(c) ==
    /\ Missed(c, Root)
    /\ size["root"] = "gone"
    /\ \E k \in Lost(Made("error", Root, "root")) : Insert(c, k)
    /\ filesUnchanged

\* root_dir without a slash at its end: "was moved".  The notice needs the
\* request's Host, and appends to a string that was never begun.
MissMoved(c) ==
    /\ Missed(c, Root)
    /\ size["root"] # "gone"
    /\ layout = "dir"
    /\ \/ Private(c, Made("moved", Root, "root"))
       \/ Ends("crash_moved")
    /\ filesUnchanged

\* The buffer for the index file's name is 12 bytes: it is found for "/".
Chosen == IF layout = "/" /\ StatOf("index") # "gone" THEN "index" ELSE "root"

MissGone(c) ==    \* the file went after the first stat()
    /\ Missed(c, Root)
    /\ size["root"] # "gone"
    /\ layout # "dir"
    /\ \E k \in Lost(Made("error", Root, Chosen)) : Insert(c, k)
    /\ filesUnchanged

MissDir(c) ==
    /\ Missed(c, Root)
    /\ size["root"] # "gone"
    /\ layout # "dir"
    /\ Chosen = "root"
    /\ Insert(c, Made("listing", Root, "root"))
    /\ filesUnchanged

\* A request with a Range makes a page of part of the file, which is cached
\* for all.  From beyond the end of a small file the length wraps around and
\* no memory is that large: the child exits.
MissFile(c) ==
    /\ Missed(c, Root)
    /\ layout = "/"
    /\ Chosen = "index"
    /\ \/ \E kind \in IF size["index"] = "small" THEN {"file", "part"} ELSE {"big"} :
             Insert(c, Made(kind, Root, "index"))
       \/ size["index"] = "small" /\ Ends("exit_nomem")
    /\ filesUnchanged

-----------------------------------------------------------------------------
(***************************************************************************)
(* A page that is found.                                                   *)
(***************************************************************************)
TouchedNot(k) == k  \* mutant: lookup_cache() leaves last_access alone
Touched(k) == [k EXCEPT !.age = 0]

\* How long the child may be held up before it calls time() again.
Delays == IF slow THEN {0, Timeout} ELSE {0}

\* "if it's currently used via connection - return it",
\* "return if not timeouted"
AsItIs(k, d) == k.ref # 0 \/ k.age + d < Timeout

\* gen_error_page() and update_page() build the block anew, in place; a
\* directory is taken for a file by the second.
Again(k, kind) == [k EXCEPT !.kind = kind, !.block = @ + 1]

Rechecked(k) ==
    IF StatOf(k.file) = "gone" THEN Again(k, "error")
    ELSE IF k.stat = mtime[k.file] THEN k
    ELSE [Again(k, IF StatOf(k.file) = "large" THEN "big" ELSE "file")
            EXCEPT !.stat = mtime[k.file]]

Hit(c, u) ==
    /\ Asked(c)
    /\ u \notin Modulas
    /\ \E p \in Cached(u), d \in Delays :
          LET k == Touched(pages[p]) IN
          /\ pages' = [pages EXCEPT ![p] = IF AsItIs(k, d) THEN k ELSE Rechecked(k)]
          /\ Give(c, p)
    /\ UNCHANGED pc
    /\ cacheUnchanged
    /\ filesUnchanged

-----------------------------------------------------------------------------
(***************************************************************************)
(* The connection: write_connection() and close_connection().              *)
(***************************************************************************)
\* The pointers are taken when the first part is sent.
TakeHead(c) ==
    /\ pc = "run"
    /\ conn[c].at = "ready"
    /\ conn' = [conn EXCEPT ![c].at = "sending",
                            ![c].block = pages[conn[c].page].block]
    /\ UNCHANGED <<pc, pages, served>>
    /\ cacheUnchanged
    /\ filesUnchanged

\* Mutant: ref counts the connections that send the page.
ReleasedCounted(k) == [k EXCEPT !.used = TRUE]
Released(k) == [k EXCEPT !.ref = @ - 1, !.used = TRUE]

Close(c) ==
    /\ pc' = pc
    /\ conn' = [conn EXCEPT ![c] = [at |-> "idle", page |-> 0, block |-> 0]]
    /\ pages' = [pages EXCEPT ![conn[c].page] = Released(@)]
    /\ UNCHANGED served
    /\ cacheUnchanged

\* All of head and body is out.  A large file has no file session to go on
\* with; a modula prints what it has to.
Sent(c) ==
    /\ pc = "run"
    /\ conn[c].at = "sending"
    /\ IF pages[conn[c].page].kind = "big" THEN Ends("crash_nofile") ELSE Close(c)
    /\ filesUnchanged

\* write() failed with EPIPE.
Broken(c) ==
    /\ pc = "run"
    /\ conn[c].at = "sending"
    /\ Close(c)
    /\ filesUnchanged

-----------------------------------------------------------------------------
Miss(c) ==
    \/ \E u \in Uri : MissName(c, u)
    \/ MissRoot(c) \/ MissMoved(c) \/ MissGone(c) \/ MissDir(c) \/ MissFile(c)

Generate(c) ==
    \/ BadRequest(c) \/ Miss(c)
    \/ \E u \in Uri : AskModula(c, u) \/ Hit(c, u)

Next ==
    \/ \E c \in Conn : Generate(c) \/ TakeHead(c) \/ Sent(c) \/ Broken(c)
    \/ \E f \in File : Change(f)
    \/ Tick

Spec == Init /\ [][Next]_vars

-----------------------------------------------------------------------------
(***************************************************************************)
(* Properties.                                                             *)
(***************************************************************************)
Has(c, p)  == conn[c].at # "idle" /\ conn[c].page = p
Sending(p) == \E c \in Conn : conn[c].at = "sending" /\ conn[c].page = p

\* The memory a connection writes from is that of its page.  A step frees it
\* only to make room for another page in the full cache (page.c:69), and builds
\* it anew only where the child is held up between two readings of the clock
\* and no connection finished with the page before.  No count protects it, for
\* ref is never raised: lookup_cache() makes every page it finds look new
\* (page.c:93), and a page that was sent has a ref below zero, read as "in use"
\* (http.c:338, serv.c:299).
SendingKept ==
    [][\A p \in PageId : Sending(p) =>
          /\ pages[p].kind # "freed" /\ pages'[p].kind = "freed"
                => cached_pages = CacheMax /\ p \in LastCached
          /\ pages'[p].block # pages[p].block => slow /\ ~pages[p].used]_vars

\* A modula's page carries one open session and a notice names the host one
\* client asked: neither is ever found by another request, and no two
\* connections close the same session (http.c:320, serv.c:301).
OneClientOnly ==
    pc = "run" =>
        /\ \A p \in cache : pages[p].kind \in {"error", "listing", "file", "part", "big"}
        /\ \A c, d \in Conn :
              /\ c # d
              /\ conn[c].at # "idle" /\ conn[d].at # "idle"
              /\ conn[c].page = conn[d].page
              => pages[conn[c].page].kind \notin {"modula", "moved"}

(***************************************************************************)
(* What the comments say.                                                  *)
(***************************************************************************)

\* http.c:338, "if it's currently used via connection - return it", 340, "return
\* if not timeouted", 342, "in other cases need to check if exist, the same": a
\* page that no connection has, last asked for CACHE_TIMEOUT ago, is built again
\* when it is asked for and its file has changed.
ChangeNoticed ==
    [][\A p \in cache, c \in Conn :
          LET k == pages[p] IN
          /\ ~\E d \in Conn : Has(d, p)
          /\ k.kind # "error" /\ k.age = Timeout
          /\ StatOf(k.file) # "gone" /\ k.stat # mtime[k.file]
          /\ Has(c, p)'
          => pages'[p].block # k.block]_vars
=============================================================================
