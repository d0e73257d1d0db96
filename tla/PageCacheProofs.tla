--------------------------- MODULE PageCacheProofs ---------------------------
(***************************************************************************)
(* Proofs about PageCache, for any number of connections and URIs, any     *)
(* limit of the cache, any timeout and any bounds.                         *)
(***************************************************************************)
EXTENDS PageCache, FiniteSetTheorems, WellFoundedInduction, TLAPS

CacheKind == {"error", "listing", "file", "part", "big"}

\* A page that is not freed; the count of a page that was sent is below zero.
GoodPage(k) ==
    /\ k.kind # "freed"
    /\ k.ref <= 0
    /\ k.used => k.ref < 0

Pages    == \A p \in PageId : GoodPage(pages[p])
Held     == \A c \in Conn : conn[c].at # "idle" => pages[conn[c].page].kind # "none"
Static   == pages[0].kind \in {"none", "bad"}
Cacheable == \A p \in cache : pages[p].kind \in CacheKind
Alone ==
    \A c, d \in Conn :
        /\ c # d
        /\ conn[c].at # "idle" /\ conn[d].at # "idle"
        /\ conn[c].page = conn[d].page
        => pages[conn[c].page].kind \notin {"modula", "moved"}

Good == Pages /\ Static /\ Held /\ Cacheable /\ Alone

Inv == TypeOK /\ (pc = "run" => Good)

\* What a step may do to a page that a connection sends.
Kept ==
    \A p \in PageId : Sending(p) =>
        /\ pages[p].kind # "freed" /\ pages'[p].kind = "freed"
              => cached_pages = CacheMax /\ p \in LastCached
        /\ pages'[p].block # pages[p].block => slow /\ ~pages[p].used

\* A page as it is made.
New(k) ==
    /\ k \in PageType
    /\ k.kind \notin {"none", "freed"}
    /\ ~k.used /\ k.ref = 0 /\ k.block = 1

-----------------------------------------------------------------------------
(***************************************************************************)
(* Lemmas about the operators of the model.                                *)
(***************************************************************************)

LEMMA FreshIsUnmade ==
    ASSUME Unmade # {}
    PROVE  Fresh \in Unmade
<1> DEFINE R == {ss \in Nat \X Nat : ss[1] < ss[2]}
<1>1. IsWellFoundedOn(R, Nat)
  BY NatLessThanWellFounded DEF OpToRel
<1>2. Unmade \subseteq Nat
  BY BoundAssumption DEF Unmade, PageId
<1> HIDE DEF R
<1>3. PICK p \in Unmade : \A q \in Unmade : ~(<<q, p>> \in R)
  BY <1>1, <1>2, WFMin
<1>4. \A q \in Unmade : p <= q
  <2> SUFFICES ASSUME NEW q \in Unmade PROVE p <= q
    OBVIOUS
  <2>1. p \in Nat /\ q \in Nat
    BY <1>2
  <2>2. ~(q < p)
    BY <1>3, <2>1 DEF R
  <2>3. QED
    BY <2>1, <2>2
<1>5. QED
  BY <1>4 DEF Fresh

LEMMA FreshFacts ==
    ASSUME Unmade # {}
    PROVE  Fresh \in PageId \ {0} /\ pages[Fresh].kind = "none"
  BY FreshIsUnmade DEF Unmade

LEMMA RootInUri == Root \in Uri
  BY UriAssumption

LEMMA NoPageType == NoPage \in PageType
  BY RootInUri, BoundAssumption DEF NoPage, PageType, Kind, File

LEMMA MadeIsNew ==
    ASSUME TypeOK, NEW kind \in Kind \ {"none", "freed"}, NEW u \in Uri,
           NEW f \in File \cup {"null"}
    PROVE  New(Made(kind, u, f)) /\ Made(kind, u, f).kind = kind
<1>1. PICK s \in 0 .. MaxTime : s = IF f = "null" THEN 0 ELSE mtime[f]
  BY BoundAssumption DEF TypeOK
<1>2. Made(kind, u, f) =
        [NoPage EXCEPT !.kind = kind, !.for = u, !.file = f, !.block = 1, !.stat = s]
  BY <1>1, Zenon DEF Made
<1>3. Made(kind, u, f) =
        [kind |-> kind, key |-> Root, for |-> u, file |-> f, block |-> 1,
         stat |-> s, ref |-> 0, age |-> 0, used |-> FALSE]
  BY <1>2 DEF NoPage
<1>4. QED
  BY <1>3, RootInUri, BoundAssumption DEF New, PageType

LEMMA LostIsNew ==
    ASSUME NEW k, New(k), NEW l \in Lost(k)
    PROVE  New(l) /\ l.kind = k.kind
  BY DEF Lost, New, PageType

LEMMA CacheFinite ==
    ASSUME TypeOK
    PROVE  IsFiniteSet(cache)
<1>1. IsFiniteSet(0 .. MaxPage)
  BY FS_Interval, BoundAssumption
<1>2. cache \in SUBSET (0 .. MaxPage)
  BY DEF TypeOK, PageId
<1>3. QED
  BY <1>1, <1>2, FS_Subset

-----------------------------------------------------------------------------
(***************************************************************************)
(* Each way a request is answered.                                         *)
(***************************************************************************)

LEMMA PrivateKeeps ==
    ASSUME Inv, NEW c \in Conn, Asked(c), NEW k, New(k), Private(c, k),
           filesUnchanged
    PROVE  Inv' /\ Kept
<1>1. Fresh \in PageId \ {0} /\ pages[Fresh].kind = "none"
  BY FreshFacts DEF Private
<1>2. PICK f \in PageId \ {0} : f = Fresh
  BY <1>1
<1>3. /\ pages[f].kind = "none"
      /\ pages' = [pages EXCEPT ![f] = k]
      /\ conn' = [conn EXCEPT ![c] = [at |-> "ready", page |-> f, block |-> 0]]
      /\ served' = served + 1
      /\ pc' = pc /\ cache' = cache /\ cached_pages' = cached_pages
      /\ pc = "run"
      /\ UNCHANGED <<layout, slow, size, mtime>>
  BY <1>1, <1>2 DEF Private, Give, cacheUnchanged, filesUnchanged, Asked
<1>4. TypeOK /\ Good
  BY <1>3 DEF Inv
<1>5. TypeOK'
  BY <1>3, <1>4 DEF TypeOK, New
<1>6. \A p \in PageId : pages'[p] = IF p = f THEN k ELSE pages[p]
  BY <1>3, <1>4 DEF TypeOK
<1>7. \A d \in Conn : conn'[d] = IF d = c THEN [at |-> "ready", page |-> f, block |-> 0]
                                         ELSE conn[d]
  BY <1>3, <1>4 DEF TypeOK
<1>8. \A d \in Conn : conn[d].page \in PageId /\ (conn[d].at # "idle" => conn[d].page # f)
  BY <1>3, <1>4 DEF TypeOK, Good, Held
<1>9. f \notin cache
  BY <1>3, <1>4 DEF Good, Cacheable, CacheKind
<1>10. Pages' /\ Static'
  <2>1. 0 \in PageId /\ f # 0
    BY <1>2, BoundAssumption DEF PageId
  <2>2. QED
    BY <2>1, <1>3, <1>4, <1>6 DEF Good, Pages, Static, GoodPage, New
<1>11. Held'
  BY <1>4, <1>6, <1>7, <1>8 DEF Good, Held, New
<1>13. Cacheable'
  <2>1. \A p \in cache : p \in PageId
    BY <1>4 DEF TypeOK
  <2>2. QED
    BY <2>1, <1>3, <1>4, <1>6, <1>9 DEF Good, Cacheable
<1>14. Alone'
  BY <1>4, <1>6, <1>7, <1>8 DEF Good, Alone
<1>15. Kept
  BY <1>6, <1>8 DEF Kept, Sending
<1>16. QED
  BY <1>5, <1>10, <1>11, <1>13, <1>14, <1>15 DEF Inv, Good

LEMMA InsertKeeps ==
    ASSUME Inv, NEW c \in Conn, Asked(c), NEW k, New(k), k.kind \in CacheKind,
           Insert(c, k), filesUnchanged
    PROVE  Inv' /\ Kept
<1>1. Fresh \in PageId \ {0} /\ pages[Fresh].kind = "none" /\ pc = "run"
  BY FreshFacts DEF Insert, Asked
<1>2. PICK f \in PageId \ {0} : f = Fresh
  BY <1>1
<1>3. PICK key \in Keys :
        \/ /\ cached_pages < CacheMax
           /\ pages' = [pages EXCEPT ![f] = [k EXCEPT !.key = key]]
           /\ cache' = cache \cup {f}
           /\ cached_pages' = cached_pages + 1
           /\ UNCHANGED pc
        \/ /\ cached_pages = CacheMax
           /\ \E p \in LastCached :
                 pages' = [pages EXCEPT ![p].kind = "freed",
                                        ![f] = [k EXCEPT !.key = key]]
           /\ cache' = cache \cup {f}
           /\ pc' = "wild"
           /\ UNCHANGED cached_pages
  BY <1>2, Zenon DEF Insert
<1>4. /\ conn' = [conn EXCEPT ![c] = [at |-> "ready", page |-> f, block |-> 0]]
      /\ served' = served + 1
      /\ UNCHANGED <<layout, slow, size, mtime>>
  BY <1>2 DEF Insert, Give, filesUnchanged
<1>5. TypeOK /\ Good
  BY <1>1 DEF Inv
<1> DEFINE n == [k EXCEPT !.key = key]
<1>6. /\ n \in PageType
      /\ n.kind = k.kind /\ n.used = k.used /\ n.ref = k.ref /\ n.block = k.block
  BY DEF New, PageType
<1>7. /\ n.kind \in CacheKind /\ ~n.used /\ n.ref = 0 /\ n.block = 1
  BY <1>6 DEF New
<1>8. \A d \in Conn : conn'[d] = IF d = c THEN [at |-> "ready", page |-> f, block |-> 0]
                                         ELSE conn[d]
  BY <1>4, <1>5 DEF TypeOK
<1>9. pages[f].kind = "none"
  BY <1>1, <1>2
<1>10. f \notin cache
  BY <1>9, <1>5 DEF Good, Cacheable, CacheKind
<1> HIDE DEF n
<1>11. /\ Cardinality(cache \cup {f}) = Cardinality(cache) + 1
       /\ Cardinality(cache) = cached_pages
       /\ cached_pages \in 0 .. CacheMax
  <2>1. Cardinality(cache \cup {f}) = Cardinality(cache) + 1
    BY <1>5, <1>10, CacheFinite, FS_AddElement
  <2>2. cached_pages \in 0 .. CacheMax
    BY <1>5 DEF TypeOK
  <2>3. Cardinality(cache) = cached_pages + 0
    BY <1>1, <1>5 DEF TypeOK
  <2>4. QED
    BY <2>1, <2>2, <2>3, BoundAssumption
<1>12. \A d \in Conn : conn[d].page \in PageId /\ (conn[d].at # "idle" => conn[d].page # f)
  BY <1>5, <1>9 DEF TypeOK, Good, Held
<1>20. CASE /\ cached_pages < CacheMax
            /\ pages' = [pages EXCEPT ![f] = n]
            /\ cache' = cache \cup {f}
            /\ cached_pages' = cached_pages + 1
            /\ UNCHANGED pc
  <2>0. /\ cached_pages' \in 0 .. CacheMax
        /\ Cardinality(cache') = cached_pages' + (IF pc' = "wild" THEN 1 ELSE 0)
    BY <1>1, <1>11, <1>20, BoundAssumption
  <2>1. TypeOK'
    BY <1>4, <1>5, <1>6, <1>20, <2>0 DEF TypeOK
  <2>2. \A p \in PageId : pages'[p] = IF p = f THEN n ELSE pages[p]
    BY <1>5, <1>20 DEF TypeOK
  <2>4. Pages' /\ Static'
    <3>1. 0 \in PageId /\ f # 0
      BY <1>2, BoundAssumption DEF PageId
    <3>2. QED
      BY <3>1, <1>4, <1>5, <1>7, <2>2 DEF Good, Pages, Static, GoodPage, CacheKind
  <2>5. Held'
    BY <1>5, <1>7, <1>8, <1>12, <2>2 DEF Good, Held, CacheKind
  <2>7. Cacheable'
    <3>1. \A p \in cache : p \in PageId
      BY <1>5 DEF TypeOK
    <3>2. QED
      BY <3>1, <1>5, <1>7, <1>20, <2>2 DEF Good, Cacheable
  <2>9. Alone'
    BY <1>5, <1>8, <1>12, <2>2 DEF Good, Alone
  <2>10. Kept
    BY <1>12, <2>2 DEF Kept, Sending
  <2>11. QED
    BY <2>1, <2>4, <2>5, <2>7, <2>9, <2>10 DEF Inv, Good
<1>21. CASE /\ cached_pages = CacheMax
            /\ \E p \in LastCached :
                  pages' = [pages EXCEPT ![p].kind = "freed", ![f] = n]
            /\ cache' = cache \cup {f}
            /\ pc' = "wild"
            /\ UNCHANGED cached_pages
  <2>1. PICK q \in LastCached : pages' = [pages EXCEPT ![q].kind = "freed", ![f] = n]
    BY <1>21
  <2>2. q \in PageId \ {0} /\ q # f
    BY <1>5, <1>10 DEF TypeOK, LastCached
  <2>3. \A p \in PageId : pages'[p] = IF p = f THEN n
                                      ELSE IF p = q THEN [pages[q] EXCEPT !.kind = "freed"]
                                      ELSE pages[p]
    BY <2>1, <2>2, <1>5 DEF TypeOK
  <2>4. pages[q] \in PageType /\ [pages[q] EXCEPT !.kind = "freed"] \in PageType
    BY <2>2, <1>5, SMTT(20) DEF TypeOK, PageType, Kind
  <2>5. pages' \in [PageId -> PageType]
    BY <2>1, <2>3, <2>4, <1>5, <1>6 DEF TypeOK
  <2>6. TypeOK'
    BY <2>5, <1>4, <1>5, <1>11, <1>21 DEF TypeOK
  <2>7. [pages[q] EXCEPT !.kind = "freed"].block = pages[q].block
    BY <2>4 DEF PageType
  <2>8. Kept
    BY <1>12, <1>21, <2>3, <2>7 DEF Kept, Sending
  <2>9. QED
    BY <2>6, <2>8, <1>21 DEF Inv
<1>22. QED
  BY <1>3, <1>20, <1>21 DEF n

\* What would dereference NULL ends the model.
LEMMA EndsKeeps ==
    ASSUME NEW why \in {"crash_nopage", "crash_moved", "crash_nofile", "exit_nomem"},
           Inv, pc = "run", Ends(why), filesUnchanged
    PROVE  Inv' /\ Kept
  BY DEF Inv, Ends, filesUnchanged, cacheUnchanged, TypeOK, Kept

LEMMA BadRequestKeeps ==
    ASSUME Inv, NEW c \in Conn, BadRequest(c)
    PROVE  Inv' /\ Kept
<1>0. PICK n : n = IF pages[0].kind = "none"
                   THEN [NoPage EXCEPT !.kind = "bad", !.block = 1] ELSE pages[0]
  OBVIOUS
<1>1. pc = "run" /\ TypeOK /\ Good
  BY DEF BadRequest, Asked, Inv
<1>2. 0 \in PageId
  BY BoundAssumption DEF PageId
<1>3. /\ pages' = [pages EXCEPT ![0] = n]
      /\ conn' = [conn EXCEPT ![c] = [at |-> "ready", page |-> 0, block |-> 0]]
      /\ served' = served + 1
      /\ UNCHANGED <<pc, cache, cached_pages, layout, slow, size, mtime>>
  BY <1>0 DEF BadRequest, Give, cacheUnchanged, filesUnchanged
<1>4. n \in PageType /\ n.kind # "none" /\ GoodPage(n)
  <2>1. CASE pages[0].kind = "none"
    <3>1. n = [kind |-> "bad", key |-> Root, for |-> Root, file |-> "null",
               block |-> 1, stat |-> 0, ref |-> 0, age |-> 0, used |-> FALSE]
      BY <1>0, <2>1 DEF NoPage
    <3>2. n \in PageType
      BY <3>1, RootInUri, BoundAssumption DEF PageType, Kind, File
    <3>3. n.kind = "bad" /\ n.ref = 0 /\ n.block = 1 /\ n.used = FALSE
      BY <3>1
    <3>4. QED
      BY <3>2, <3>3 DEF GoodPage
  <2>2. CASE pages[0].kind # "none"
    <3>1. n = pages[0]
      BY <1>0, <2>2
    <3>2. QED
      BY <2>2, <3>1, <1>1, <1>2 DEF TypeOK, Good, Pages
  <2>3. QED
    BY <2>1, <2>2
<1>5. Sending(0) => n = pages[0]
  BY <1>0, <1>1 DEF Good, Held, Sending
<1>6. n.kind = "bad"
  BY <1>0, <1>1 DEF NoPage, Good, Static
<1>8. \A p \in PageId : pages'[p] = IF p = 0 THEN n ELSE pages[p]
  BY <1>1, <1>3 DEF TypeOK
<1>9. \A d \in Conn : conn'[d] = IF d = c THEN [at |-> "ready", page |-> 0, block |-> 0]
                                         ELSE conn[d]
  BY <1>1, <1>3 DEF TypeOK
<1>10. TypeOK'
  BY <1>1, <1>2, <1>3, <1>4 DEF TypeOK
<1>11. Pages' /\ Static'
  BY <1>1, <1>2, <1>3, <1>4, <1>6, <1>8 DEF Good, Pages, Static, GoodPage
<1>12. Held'
  BY <1>1, <1>2, <1>4, <1>8, <1>9 DEF Good, Held, TypeOK
<1>14. Cacheable'
  BY <1>1, <1>3, <1>8 DEF Good, Cacheable, TypeOK
<1>15. Alone'
  BY <1>1, <1>6, <1>8, <1>9 DEF Good, Alone, TypeOK
<1>16. QED
  BY <1>5, <1>8, <1>10, <1>11, <1>12, <1>14, <1>15 DEF Inv, Good, Kept

-----------------------------------------------------------------------------
(***************************************************************************)
(* A page that is found, and the connections.                              *)
(***************************************************************************)

\* A page that was sent is in use for good, and without a jump of the clock
\* every page that is found is new: neither is built again.
LEMMA HitPage ==
    ASSUME TypeOK, NEW p \in PageId, GoodPage(pages[p]), pages[p].kind \in CacheKind,
           NEW d \in Delays, NEW n,
           n = IF AsItIs(Touched(pages[p]), d) THEN Touched(pages[p])
                                               ELSE Rechecked(Touched(pages[p]))
    PROVE  /\ n \in PageType /\ GoodPage(n) /\ n.kind \in CacheKind
           /\ n.block # pages[p].block => slow /\ ~pages[p].used
<1> DEFINE t == Touched(pages[p])
<1>1. pages[p] \in PageType
  BY DEF TypeOK
<1>2. /\ t \in PageType /\ t.age = 0
      /\ t.kind = pages[p].kind /\ t.ref = pages[p].ref /\ t.used = pages[p].used
      /\ t.block = pages[p].block
  BY <1>1, BoundAssumption DEF Touched, PageType
<1>3. GoodPage(t)
  BY <1>2 DEF GoodPage
<1> HIDE DEF t
<1>4. CASE AsItIs(t, d)
  BY <1>2, <1>3, <1>4 DEF t
<1>5. CASE ~AsItIs(t, d)
  <2>1. t.ref = 0 /\ ~t.used /\ ~(t.age + d < Timeout)
    BY <1>2, <1>3, <1>5 DEF AsItIs, GoodPage
  <2>2. slow
    BY <1>2, <2>1, BoundAssumption DEF Delays, TypeOK
  <2>3. n = Rechecked(t)
    BY <1>5 DEF t
  <2>4. ASSUME NEW kind \in {"error", "big", "file"}
        PROVE  /\ Again(t, kind) \in PageType
               /\ Again(t, kind).kind = kind
               /\ Again(t, kind).used = t.used /\ Again(t, kind).ref = t.ref
    <3>1. PICK b \in Nat : b = t.block + 1
      BY <1>2 DEF PageType
    <3>2. Again(t, kind) = [t EXCEPT !.kind = kind, !.block = b]
      BY <3>1 DEF Again
    <3>3. kind \in Kind
      BY DEF Kind
    <3>4. QED
      BY <3>2, <3>3, <1>2 DEF PageType
  <2>5. CASE StatOf(t.file) = "gone"
    BY <2>1, <2>2, <2>3, <2>4, <2>5, <1>2 DEF Rechecked, GoodPage, CacheKind
  <2>6. CASE StatOf(t.file) # "gone" /\ t.stat = mtime[t.file]
    BY <2>3, <2>6, <1>2, <1>3 DEF Rechecked
  <2>7. CASE StatOf(t.file) # "gone" /\ t.stat # mtime[t.file]
    <3>1. t.file \in File
      BY <2>7, <1>2 DEF PageType, StatOf
    <3>2. mtime[t.file] \in 0 .. MaxTime
      BY <3>1 DEF TypeOK
    <3>3. PICK kind \in {"big", "file"} :
            n = [Again(t, kind) EXCEPT !.stat = mtime[t.file]]
      BY <2>3, <2>7 DEF Rechecked
    <3>4. /\ n \in PageType /\ n.kind = kind /\ n.used = t.used /\ n.ref = t.ref
      BY <3>2, <3>3, <2>4 DEF PageType
    <3>5. QED
      BY <3>4, <2>1, <2>2, <1>2 DEF GoodPage, CacheKind
  <2>8. QED
    BY <2>5, <2>6, <2>7
<1>6. QED
  BY <1>4, <1>5

LEMMA HitKeeps ==
    ASSUME Inv, NEW c \in Conn, NEW u \in Uri, Hit(c, u)
    PROVE  Inv' /\ Kept
<1>1. pc = "run" /\ TypeOK /\ Good
  BY DEF Hit, Asked, Inv
<1>2. PICK p \in Cached(u), d \in Delays :
        /\ pages' = [pages EXCEPT ![p] =
                       IF AsItIs(Touched(pages[p]), d) THEN Touched(pages[p])
                       ELSE Rechecked(Touched(pages[p]))]
        /\ Give(c, p)
  BY Zenon DEF Hit
<1>3. p \in cache /\ p \in PageId /\ p # 0
  BY <1>1, <1>2 DEF Cached, TypeOK
<1>4. PICK n : n = IF AsItIs(Touched(pages[p]), d) THEN Touched(pages[p])
                   ELSE Rechecked(Touched(pages[p]))
  OBVIOUS
<1>5. /\ n \in PageType /\ GoodPage(n) /\ n.kind \in CacheKind
      /\ n.block # pages[p].block => slow /\ ~pages[p].used
  <2>1. GoodPage(pages[p]) /\ pages[p].kind \in CacheKind
    BY <1>1, <1>3 DEF Good, Pages, Cacheable
  <2>2. QED
    BY <2>1, <1>1, <1>2, <1>3, <1>4, HitPage
<1>6. /\ pages' = [pages EXCEPT ![p] = n]
      /\ conn' = [conn EXCEPT ![c] = [at |-> "ready", page |-> p, block |-> 0]]
      /\ served' = served + 1
      /\ UNCHANGED <<pc, cache, cached_pages, layout, slow, size, mtime>>
  BY <1>2, <1>4 DEF Hit, Give, cacheUnchanged, filesUnchanged
<1>7. \A q \in PageId : pages'[q] = IF q = p THEN n ELSE pages[q]
  BY <1>1, <1>6 DEF TypeOK
<1>8. \A e \in Conn : conn'[e] = IF e = c THEN [at |-> "ready", page |-> p, block |-> 0]
                                         ELSE conn[e]
  BY <1>1, <1>6 DEF TypeOK
<1>9. TypeOK'
  BY <1>1, <1>3, <1>5, <1>6 DEF TypeOK
<1>10. Pages' /\ Static'
  BY <1>1, <1>3, <1>5, <1>6, <1>7, BoundAssumption DEF Good, Pages, Static, GoodPage, PageId
<1>11. Held'
  BY <1>1, <1>3, <1>5, <1>7, <1>8 DEF Good, Held, CacheKind, TypeOK
<1>13. Cacheable'
  BY <1>1, <1>5, <1>6, <1>7 DEF Good, Cacheable, TypeOK
<1>14. Alone'
  BY <1>1, <1>3, <1>5, <1>7, <1>8 DEF Good, Alone, CacheKind, TypeOK
<1>12. Kept
  BY <1>5, <1>7 DEF Kept, GoodPage
<1>15. QED
  BY <1>6, <1>9, <1>10, <1>11, <1>12, <1>13, <1>14 DEF Inv, Good

LEMMA TakeHeadKeeps ==
    ASSUME Inv, NEW c \in Conn, TakeHead(c)
    PROVE  Inv' /\ Kept
<1>1. pc = "run" /\ TypeOK /\ Good /\ conn[c].at = "ready"
  BY DEF TakeHead, Inv
<1>2. /\ conn' = [conn EXCEPT ![c].at = "sending",
                              ![c].block = pages[conn[c].page].block]
      /\ UNCHANGED <<pc, pages, served, cache, cached_pages, layout, slow, size, mtime>>
  BY DEF TakeHead, cacheUnchanged, filesUnchanged
<1>3. /\ conn[c] \in [at : {"idle", "ready", "sending"}, page : PageId, block : Nat]
      /\ pages[conn[c].page] \in PageType
  BY <1>1 DEF TypeOK
<1> DEFINE n == [conn[c] EXCEPT !.at = "sending", !.block = pages[conn[c].page].block]
<1>4. /\ n \in [at : {"idle", "ready", "sending"}, page : PageId, block : Nat]
      /\ n.at = "sending" /\ n.page = conn[c].page
      /\ n.block = pages[conn[c].page].block
  BY <1>3 DEF PageType
<1>5. \A d \in Conn : conn'[d] = IF d = c THEN n ELSE conn[d]
  BY <1>1, <1>2 DEF TypeOK
<1>6. conn' = [conn EXCEPT ![c] = n]
  BY <1>1, <1>2 DEF TypeOK
<1> HIDE DEF n
<1>13. \A d \in Conn :
         /\ conn'[d].page = conn[d].page
         /\ conn'[d].at # "idle" => conn[d].at # "idle"
  BY <1>1, <1>4, <1>5
<1>7. TypeOK'
  BY <1>1, <1>2, <1>4, <1>6 DEF TypeOK
<1>8. Pages' /\ Static' /\ Cacheable'
  BY <1>1, <1>2 DEF Good, Pages, Static, GoodPage, Cacheable
<1>9. Held'
  BY <1>1, <1>2, <1>13 DEF Good, Held
<1>11. Alone'
  <2> SUFFICES ASSUME NEW d \in Conn, NEW e \in Conn, d # e,
                      conn'[d].at # "idle", conn'[e].at # "idle",
                      conn'[d].page = conn'[e].page
               PROVE  pages'[conn'[d].page].kind \notin {"modula", "moved"}
    BY DEF Alone
  <2>1. /\ conn[d].at # "idle" /\ conn[e].at # "idle"
        /\ conn[d].page = conn[e].page
        /\ conn'[d].page = conn[d].page
    BY <1>13
  <2>2. pages[conn[d].page].kind \notin {"modula", "moved"}
    BY <2>1, <1>1 DEF Good, Alone
  <2>3. QED
    BY <2>1, <2>2, <1>2
<1>12. QED
  BY <1>2, <1>7, <1>8, <1>9, <1>11 DEF Inv, Good, Kept

LEMMA CloseKeeps ==
    ASSUME Inv, NEW c \in Conn, pc = "run", conn[c].at = "sending", Close(c),
           filesUnchanged
    PROVE  Inv' /\ Kept
<1>1. TypeOK /\ Good
  BY DEF Inv
<1>2. PICK p \in PageId : p = conn[c].page
  BY <1>1 DEF TypeOK
<1>3. pages[p] \in PageType /\ pages[p].kind # "none" /\ GoodPage(pages[p])
  BY <1>1, <1>2 DEF TypeOK, Good, Held, Pages
<1>4. PICK n : n = Released(pages[p])
  OBVIOUS
<1>5. /\ n \in PageType /\ n.kind = pages[p].kind /\ n.block = pages[p].block
      /\ n.ref = pages[p].ref - 1 /\ n.used
  <2>1. pages[p].ref - 1 \in Int
    BY <1>3 DEF PageType
  <2>2. PICK r \in Int : r = pages[p].ref - 1
    BY <2>1
  <2>3. n = [pages[p] EXCEPT !.ref = r, !.used = TRUE]
    BY <1>4, <2>2 DEF Released
  <2>4. n \in PageType /\ n.ref = r
    BY <1>3, <2>3 DEF PageType
  <2>5. n.kind = pages[p].kind /\ n.block = pages[p].block /\ n.used
    BY <1>3, <2>3 DEF PageType
  <2>6. QED
    BY <2>2, <2>4, <2>5
<1>6. GoodPage(n)
  BY <1>3, <1>5 DEF GoodPage, PageType
<1>7. /\ pages' = [pages EXCEPT ![p] = n]
      /\ conn' = [conn EXCEPT ![c] = [at |-> "idle", page |-> 0, block |-> 0]]
      /\ UNCHANGED <<pc, served, cache, cached_pages, layout, slow, size, mtime>>
  BY <1>2, <1>4 DEF Close, cacheUnchanged, filesUnchanged
<1>8. \A q \in PageId : pages'[q] = IF q = p THEN n ELSE pages[q]
  BY <1>1, <1>7 DEF TypeOK
<1>9. \A d \in Conn : conn'[d] = IF d = c THEN [at |-> "idle", page |-> 0, block |-> 0]
                                         ELSE conn[d]
  BY <1>1, <1>7 DEF TypeOK
<1>10. TypeOK'
  <2>1. 0 \in PageId /\ 0 \in Nat
    BY BoundAssumption DEF PageId
  <2>2. QED
    BY <2>1, <1>1, <1>5, <1>7 DEF TypeOK
<1>11. Pages' /\ Static'
  BY <1>1, <1>5, <1>6, <1>7, <1>8, BoundAssumption DEF Good, Pages, Static, GoodPage, PageId
<1>12. Held'
  BY <1>1, <1>5, <1>7, <1>8, <1>9 DEF Good, Held, TypeOK
<1>13. Cacheable'
  BY <1>1, <1>5, <1>7, <1>8 DEF Good, Cacheable, TypeOK
<1>14. Alone'
  BY <1>1, <1>5, <1>8, <1>9 DEF Good, Alone, TypeOK
<1>15. QED
  BY <1>5, <1>8, <1>10, <1>11, <1>12, <1>13, <1>14 DEF Inv, Good, Kept

-----------------------------------------------------------------------------
(***************************************************************************)
(* The initial states and every step.                                      *)
(***************************************************************************)

LEMMA InitInv == Init => Inv
<1> SUFFICES ASSUME Init PROVE Inv
  OBVIOUS
<1>1. pages \in [PageId -> PageType] /\ \A p \in PageId : pages[p] = NoPage
  BY NoPageType DEF Init
<1>2. 0 \in PageId /\ 0 \in Nat
  BY BoundAssumption DEF PageId
<1>3. TypeOK
  BY <1>1, <1>2, FS_EmptySet, BoundAssumption DEF Init, TypeOK
<1>4. /\ NoPage.kind = "none" /\ NoPage.used = FALSE /\ NoPage.ref = 0
  BY DEF NoPage
<1>5. Pages /\ Static
  BY <1>1, <1>2, <1>4 DEF Pages, Static, GoodPage
<1>6. Held /\ Alone
  BY DEF Init, Held, Alone
<1>7. Cacheable
  BY DEF Init, Cacheable
<1>8. QED
  BY <1>3, <1>5, <1>6, <1>7 DEF Inv, Good

LEMMA ChosenIsFile == Chosen \in File
  BY DEF Chosen, File

\* Every miss makes a page that any request may have, or a notice that no
\* other request finds.
LEMMA MissKeeps ==
    ASSUME Inv, NEW c \in Conn, Miss(c)
    PROVE  Inv' /\ Kept
<1>1. TypeOK
  BY DEF Inv
<1>2. ASSUME NEW u \in Uri, MissName(c, u) PROVE Inv' /\ Kept
  <2>1. New(Made("error", u, "null")) /\ Made("error", u, "null").kind = "error"
    BY <1>1, MadeIsNew DEF Kind
  <2>2. QED
    BY <1>2, <2>1, InsertKeeps DEF MissName, Missed, CacheKind
<1>3. ASSUME NEW kind \in CacheKind, NEW f \in File, Asked(c), filesUnchanged,
             Insert(c, Made(kind, Root, f))
      PROVE  Inv' /\ Kept
  <2>1. New(Made(kind, Root, f)) /\ Made(kind, Root, f).kind = kind
    BY <1>1, <1>3, RootInUri, MadeIsNew DEF Kind, CacheKind
  <2>2. QED
    BY <1>3, <2>1, InsertKeeps
<1>10. ASSUME NEW f \in File, Asked(c), filesUnchanged,
              NEW k \in Lost(Made("error", Root, f)), Insert(c, k)
       PROVE  Inv' /\ Kept
  <2>1. New(k) /\ k.kind = "error"
    BY <1>1, RootInUri, MadeIsNew, LostIsNew DEF Kind
  <2>2. QED
    BY <1>10, <2>1, InsertKeeps DEF CacheKind
<1>4. ASSUME MissRoot(c) PROVE Inv' /\ Kept
  BY <1>4, <1>10 DEF MissRoot, Missed, File
<1>5. ASSUME MissMoved(c) PROVE Inv' /\ Kept
  <2>1. New(Made("moved", Root, "root"))
    BY <1>1, RootInUri, MadeIsNew DEF Kind, File
  <2>2. CASE Private(c, Made("moved", Root, "root"))
    BY <1>5, <2>1, <2>2, PrivateKeeps DEF MissMoved, Missed
  <2>3. CASE Ends("crash_moved")
    BY <1>5, <2>3, EndsKeeps DEF MissMoved, Missed, Asked
  <2>4. QED
    BY <1>5, <2>2, <2>3 DEF MissMoved
<1>6. ASSUME MissGone(c) PROVE Inv' /\ Kept
  BY <1>6, <1>10, ChosenIsFile DEF MissGone, Missed
<1>7. ASSUME MissDir(c) PROVE Inv' /\ Kept
  BY <1>3, <1>7 DEF MissDir, Missed, CacheKind, File
<1>8. ASSUME MissFile(c) PROVE Inv' /\ Kept
  <2>1. CASE Ends("exit_nomem")
    BY <1>8, <2>1, EndsKeeps DEF MissFile, Missed, Asked
  <2>2. CASE ~Ends("exit_nomem")
    BY <1>3, <1>8, <2>2 DEF MissFile, Missed, CacheKind, File
  <2>3. QED
    BY <2>1, <2>2
<1>9. QED
  BY <1>2, <1>4, <1>5, <1>6, <1>7, <1>8 DEF Miss

LEMMA AskModulaKeeps ==
    ASSUME Inv, NEW c \in Conn, NEW u \in Uri, AskModula(c, u)
    PROVE  Inv' /\ Kept
<1>1. New(Made("modula", u, "null"))
  BY MadeIsNew DEF Kind, Inv
<1>2. CASE Private(c, Made("modula", u, "null"))
  BY <1>1, <1>2, PrivateKeeps DEF AskModula
<1>3. CASE Ends("crash_nopage")
  BY <1>3, EndsKeeps DEF AskModula, Asked
<1>4. QED
  BY <1>2, <1>3 DEF AskModula

LEMMA ChangeKeeps ==
    ASSUME Inv, NEW f \in File, Change(f)
    PROVE  Inv' /\ Kept
<1>1. TypeOK /\ mtime[f] < MaxTime
  BY DEF Inv, Change
<1>2. mtime[f] + 1 \in 0 .. MaxTime
  BY <1>1, BoundAssumption DEF TypeOK
<1>3. TypeOK'
  BY <1>1, <1>2 DEF Change, TypeOK
<1>4. Good => Good'
  BY DEF Change, Good, Pages, Static, GoodPage, Held, Cacheable, Alone
<1>5. Kept
  BY DEF Change, Kept
<1>6. QED
  BY <1>3, <1>4, <1>5 DEF Inv, Change

LEMMA TickKeeps ==
    ASSUME Inv, Tick
    PROVE  Inv' /\ Kept
<1>1. TypeOK
  BY DEF Inv
<1>2. UNCHANGED <<pc, cache, cached_pages, conn, served, layout, slow, size, mtime>>
  BY DEF Tick, filesUnchanged
<1>3. ASSUME NEW p \in PageId
      PROVE  /\ Aged(pages[p]) \in PageType
             /\ Aged(pages[p]).kind = pages[p].kind /\ Aged(pages[p]).ref = pages[p].ref
             /\ Aged(pages[p]).block = pages[p].block /\ Aged(pages[p]).used = pages[p].used
  <2>1. pages[p] \in PageType /\ pages[p].age \in 0 .. Timeout
    BY <1>1 DEF TypeOK, PageType
  <2>2. CASE pages[p].age < Timeout
    <3>1. PICK a \in 0 .. Timeout : a = pages[p].age + 1
      BY <2>1, <2>2, BoundAssumption
    <3>2. Aged(pages[p]) = [pages[p] EXCEPT !.age = a]
      BY <2>2, <3>1 DEF Aged
    <3>3. QED
      BY <2>1, <3>2 DEF PageType
  <2>3. CASE ~(pages[p].age < Timeout)
    BY <2>1, <2>3 DEF Aged
  <2>4. QED
    BY <2>2, <2>3
<1>4. \A p \in PageId :
        /\ pages'[p] \in PageType
        /\ pages'[p].kind = pages[p].kind /\ pages'[p].ref = pages[p].ref
        /\ pages'[p].block = pages[p].block /\ pages'[p].used = pages[p].used
  BY <1>1, <1>3 DEF Tick, TypeOK
<1>5. pages' \in [PageId -> PageType]
  BY <1>4 DEF Tick
<1>6. TypeOK'
  BY <1>1, <1>2, <1>5 DEF TypeOK
<1>7. ASSUME Good PROVE Good'
  <2>1. 0 \in PageId
    BY BoundAssumption DEF PageId
  <2>2. Pages' /\ Static'
    BY <1>2, <1>4, <1>7, <2>1 DEF Good, Pages, Static, GoodPage
  <2>3. Held' /\ Cacheable'
    BY <1>1, <1>2, <1>4, <1>7 DEF Good, Held, Cacheable, TypeOK
  <2>4. Alone'
    BY <1>1, <1>2, <1>4, <1>7 DEF Good, Alone, TypeOK
  <2>5. QED
    BY <2>2, <2>3, <2>4 DEF Good
<1>8. QED
  BY <1>2, <1>4, <1>6, <1>7 DEF Inv, Kept

LEMMA NextInv ==
    ASSUME Inv, [Next]_vars
    PROVE  Inv' /\ Kept
<1>1. ASSUME NEW c \in Conn, Generate(c) PROVE Inv' /\ Kept
  BY <1>1, BadRequestKeeps, MissKeeps, AskModulaKeeps, HitKeeps DEF Generate
<1>2. ASSUME NEW c \in Conn, Sent(c) PROVE Inv' /\ Kept
  <2>1. CASE pages[conn[c].page].kind = "big"
    BY <1>2, <2>1, EndsKeeps DEF Sent
  <2>2. CASE pages[conn[c].page].kind # "big"
    BY <1>2, <2>2, CloseKeeps DEF Sent
  <2>3. QED
    BY <2>1, <2>2
<1>3. ASSUME NEW c \in Conn, Broken(c) PROVE Inv' /\ Kept
  BY <1>3, CloseKeeps DEF Broken
<1>4. ASSUME UNCHANGED vars PROVE Inv' /\ Kept
  <2>1. TypeOK => TypeOK'
    BY <1>4 DEF vars, TypeOK
  <2>2. Good => Good'
    BY <1>4 DEF vars, Good, Pages, Static, GoodPage, Held, Cacheable, Alone
  <2>3. QED
    BY <1>4, <2>1, <2>2 DEF vars, Inv, Kept
<1>5. QED
  BY <1>1, <1>2, <1>3, <1>4, TakeHeadKeeps, ChangeKeeps, TickKeeps DEF Next

LEMMA InvAlways == Spec => []Inv
<1>1. Inv /\ [Next]_vars => Inv'
  BY NextInv
<1>2. QED
  BY InitInv, <1>1, PTL DEF Spec

-----------------------------------------------------------------------------
(***************************************************************************)
(* What the runs check.                                                    *)
(***************************************************************************)

\* The types of page.h and of the connection's share of serv.c.
THEOREM TypeCorrect == Spec => []TypeOK
<1>1. Inv => TypeOK
  BY DEF Inv
<1>2. QED
  BY InvAlways, <1>1, PTL

\* What belongs to one client is given to no other (http.c:320, serv.c:301).
THEOREM OneClientOnlyAlways == Spec => []OneClientOnly
<1>1. Inv => OneClientOnly
  BY DEF Inv, Good, Cacheable, CacheKind, Alone, OneClientOnly
<1>2. QED
  BY InvAlways, <1>1, PTL

\* A page that is being sent is freed only by an eviction and built anew only
\* after a jump of the clock and before it was ever sent (page.c:69, page.c:93,
\* http.c:338), whatever the limit and the timeout.
THEOREM SendingKeptAlways == Spec => SendingKept
<1>1. Inv /\ [Next]_vars => [Kept]_vars
  BY NextInv
<1>2. QED
  BY InvAlways, <1>1, PTL DEF Spec, SendingKept, Kept
=============================================================================
