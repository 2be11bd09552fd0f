---------------------------- MODULE ViewerAssets ----------------------------
(***************************************************************************)
(* How the 3D viewer of the web application obtains, shows and gives back  *)
(* mesh assets: UVFLoader.load (a manifest, then buffers fetched by        *)
(* concurrent workers), the shared cache UVFAssetLRU (reference counts,    *)
(* prefetching, least-recently-used eviction) and the loading effect of    *)
(* Viewer3D (abort, retained previous asset, precision fallback).          *)
(*                                                                         *)
(* One action is one task of the browser's event loop: the code between    *)
(* two awaits together with the promise callbacks it triggers.             *)
(***************************************************************************)
EXTENDS Naturals, Sequences, FiniteSets, SequencesExt

CONSTANTS
    Urls,        \* the manifests that can be asked for
    Gltf,        \* those of them that are loaded by GLTFLoader: no abort, no progress
    Wants,       \* the sequences of manifests a parent component passes down
    Loads,       \* identities of loads in progress, which bounds how many there are
    Capacity,    \* entries the cache keeps
    Buffers,     \* the most buffer files of an asset
    NoUrl        \* "no manifest"

ViewerAssetsAssumption ==
    /\ Gltf \subseteq Urls /\ NoUrl \notin Urls
    /\ Wants \subseteq Seq(Urls) /\ <<>> \in Wants
    /\ Capacity \in Nat \ {0} /\ Buffers \in Nat \ {0}
    /\ IsFiniteSet(Loads) /\ 0 \notin Loads /\ Loads \subseteq Nat

VARIABLES
    owner,   \* how the viewer is used: with a cache or not, with a retained asset or not
    store,   \* the loads, the entries of the cache and what was just disposed
    viewer   \* the state and the refs of Viewer3D

vars == <<owner, store, viewer>>

Levels == {"default", "fine"}      \* the precision asked for: the manifest's, or another
Statuses == {"idle", "loading", "ready", "error"}

(***************************************************************************)
(* Loads and cache entries.  Operators on the store return the store after *)
(* the call, so that the calls of one task compose.                        *)
(***************************************************************************)
FreeLoad == [st |-> "free", url |-> NoUrl, level |-> "default", left |-> 0,
             aborted |-> FALSE, reports |-> FALSE]
NoEntry == [st |-> "none", load |-> 0, refs |-> 0, prefetched |-> FALSE]

EmptyStore == [loads |-> [l \in Loads |-> FreeLoad],
               entries |-> [u \in Urls |-> NoEntry],
               recent |-> <<>>,          \* keys of the entries by lastUsed
               gone |-> {}]              \* assets disposed by this call

Idle(s) == {l \in Loads : s.loads[l].st = "free"}
NextLoad(s) == CHOOSE l \in Idle(s) : TRUE

StartLoad(s, u, level, reports) ==
    [s EXCEPT !.loads[NextLoad(s)] =
        [st |-> "manifest", url |-> u, level |-> level, left |-> 0,
         aborted |-> FALSE, reports |-> reports]]

\* fetch rejects an aborted request at once; GLTFLoader goes on
AbortLoad(s, l) ==
    IF l = 0 THEN s
    ELSE [s EXCEPT !.loads[l] = IF @.url \in Gltf /\ @.st # "free"
                                THEN [@ EXCEPT !.aborted = TRUE] ELSE FreeLoad]

TouchAgain(s, u) == [s EXCEPT !.recent = Append(@, u)]
Without(q, u) == IF u \in ToSet(q) THEN RemoveAt(q, CHOOSE i \in DOMAIN q : q[i] = u) ELSE q
Touch(s, u) == [s EXCEPT !.recent = Append(Without(@, u), u)]

\* private ensure(url): the entry there is, or a new one that starts to load
Ensure(s, u, reports) ==
    IF s.entries[u].st # "none" THEN s
    ELSE Touch([StartLoad(s, u, "default", reports)
                  EXCEPT !.entries[u] = [st |-> "loading", load |-> NextLoad(s),
                                         refs |-> 0, prefetched |-> FALSE]], u)

\* controller.abort(), asset?.dispose(), entries.delete(url)
Drop(s, u) ==
    LET a == AbortLoad(s, s.entries[u].load)
    IN  [a EXCEPT !.entries[u] = NoEntry,
                  !.recent = Without(@, u),
                  !.gone = IF s.entries[u].st = "ready" THEN @ \union {u} ELSE @]

Size(s) == Cardinality({u \in Urls : s.entries[u].st # "none"})
Evictable(s, u) == s.entries[u].refs = 0 /\ ~s.entries[u].prefetched
Unwanted(s, u) == s.entries[u].st = "loading" /\ Evictable(s, u)

\* The calls that go through the entries, the least recently used first, and
\* drop those that must go.
Goes(why, s, u) ==
    \/ why = "full" /\ Size(s) > Capacity /\ Evictable(s, u)
    \/ why = "unwanted" /\ Unwanted(s, u)
    \/ why = "dispose"
Swept(s, why) ==
    LET after[n \in 0..Len(s.recent)] ==
            IF n = 0 THEN s
            ELSE IF Goes(why, after[n - 1], s.recent[n]) THEN Drop(after[n - 1], s.recent[n])
            ELSE after[n - 1]
    IN  after
Sweep(s, why) == Swept(s, why)[Len(s.recent)]
Trim(s) == Sweep(s, "full")

AcquireOnce(s, u) == Touch([Ensure(s, u, TRUE) EXCEPT !.entries[u].refs = 1], u)
Acquire(s, u) == Touch([Ensure(s, u, TRUE) EXCEPT !.entries[u].refs = @ + 1], u)

Release(s, u) ==
    IF s.entries[u].st = "none" THEN s
    ELSE LET r == Touch([s EXCEPT !.entries[u].refs = IF @ = 0 THEN 0 ELSE @ - 1], u)
         IN  Trim(IF Unwanted(r, u) THEN Drop(r, u) ELSE r)

Marked(s, targets) ==
    [s EXCEPT !.entries = [u \in Urls |-> [s.entries[u] EXCEPT !.prefetched =
                              s.entries[u].st # "none" /\ u \in ToSet(targets)]]]
PrefetchOne(s, u) == Touch([Ensure(s, u, FALSE) EXCEPT !.entries[u].prefetched = TRUE], u)
Prefetched(s, targets) ==
    LET after[n \in 0..Len(targets)] ==
            IF n = 0 THEN s ELSE PrefetchOne(after[n - 1], targets[n])
    IN  after
Prefetch(s, targets) ==
    Trim(Sweep(Prefetched(Marked(s, targets), targets)[Len(targets)], "unwanted"))

DisposeCache(s) == Sweep(s, "dispose")

(***************************************************************************)
(* Viewer3D.  A request is one run of the loading effect: the layers it    *)
(* has obtained (got of them), and the load it waits for when there is no  *)
(* cache.  A picture is what the scene shows.                              *)
(***************************************************************************)
NoRequest == [on |-> FALSE, urls |-> <<>>, got |-> 0, load |-> 0, level |-> "default"]
NoPicture == [urls |-> <<>>, level |-> "default", alive |-> TRUE]

NewViewer == [mounted |-> TRUE, want |-> <<>>, level |-> "default", missing |-> {},
              status |-> "idle", request |-> NoRequest, shown |-> NoPicture,
              loaded |-> <<>>]

Owners == [cached : BOOLEAN, preserve : BOOLEAN]

TypeOK ==
    /\ owner \in Owners
    /\ store.loads \in [Loads -> [st : {"free", "manifest", "buffers", "failed"},
                                  url : Urls \union {NoUrl}, level : Levels,
                                  left : 0..Buffers, aborted : BOOLEAN, reports : BOOLEAN]]
    /\ store.entries \in [Urls -> [st : {"none", "loading", "ready"},
                                   load : Loads \union {0}, refs : Nat, prefetched : BOOLEAN]]
    /\ store.gone = {} /\ IsInjective(store.recent)
    /\ ToSet(store.recent) = {u \in Urls : store.entries[u].st # "none"}
    /\ viewer.want \in Wants /\ viewer.status \in Statuses
    /\ viewer.level \in Levels /\ viewer.missing \subseteq Levels
    /\ viewer.request.got \in 0..Len(viewer.request.urls)

Init == /\ owner \in Owners
        /\ store = EmptyStore
        /\ viewer = NewViewer

\* the layer that the request waits for
Awaited(r) == r.urls[r.got + 1]

\* One step of the loop over the layers: ask for the next one, unless the
\* request already waits for the one before.
AskLayer(acc, u) ==
    IF acc.waits THEN acc
    ELSE IF owner.cached /\ u \notin Gltf
    THEN LET s == Acquire(acc.s, u)
             ready == s.entries[u].st = "ready"
         IN  [acc EXCEPT !.s = s, !.waits = ~ready, !.got = IF ready THEN @ + 1 ELSE @]
    ELSE [acc EXCEPT !.s = StartLoad(acc.s, u, acc.level, u \notin Gltf),
                     !.load = NextLoad(acc.s), !.waits = TRUE]

Asked(s, r) ==
    LET after[n \in 0..Len(r.urls)] ==
            IF n <= r.got THEN [s |-> s, waits |-> FALSE, got |-> r.got, load |-> 0, level |-> r.level]
            ELSE AskLayer(after[n - 1], r.urls[n])
    IN  after
AskLayers(s, r) == Asked(s, r)[Len(r.urls)]

\* disposers.forEach((dispose) => dispose())
Given(s, urls) ==
    LET after[n \in 0..Len(urls)] ==
            IF n = 0 THEN s
            ELSE IF urls[n] \in Gltf THEN after[n - 1] ELSE Release(after[n - 1], urls[n])
    IN  after
GiveBack(s, urls) == IF owner.cached THEN Given(s, urls)[Len(urls)] ELSE s

\* What is left of an aborted request: its wait is rejected, it gives back
\* the layer it waited for and those it had.
Abandon(s, r) ==
    IF ~r.on THEN s
    ELSE IF owner.cached /\ Awaited(r) \notin Gltf
         THEN GiveBack(Release(s, Awaited(r)), SubSeq(r.urls, 1, r.got))
         ELSE GiveBack(AbortLoad(s, r.load), SubSeq(r.urls, 1, r.got))

\* The scene's asset is disposed when the cache disposes one of its layers.
Settle(s, v) ==
    /\ store' = [s EXCEPT !.gone = {}]
    /\ viewer' = IF owner.cached /\ s.gone \intersect ToSet(v.shown.urls) # {}
                 THEN [v EXCEPT !.shown.alive = FALSE] ELSE v

\* updateGeometry after its last layer, and the then of the effect
Finish(s, v, r) ==
    Settle(GiveBack(s, v.shown.urls),
           [v EXCEPT !.request = NoRequest, !.status = "ready", !.loaded = r.urls,
                     !.shown = [urls |-> r.urls, level |-> r.level, alive |-> TRUE]])

\* The catch of the effect: an asset that cannot be had at the precision asked
\* for falls back to the manifest's own, which makes the effect run again.
Fail(s, v, r) ==
    LET back == GiveBack(s, SubSeq(r.urls, 1, r.got))
    IN  IF r.level = "default"
        THEN Settle(back, [v EXCEPT !.request = NoRequest, !.status = "error"])
        ELSE /\ Idle(back) # {}
             /\ LET again == [r EXCEPT !.level = "default", !.got = 0, !.load = 0]
                    asked == AskLayers(back, again)
                IN  Settle(asked.s,
                           [v EXCEPT !.level = "default", !.missing = @ \union {r.level},
                                     !.status = "loading",
                                     !.request = [again EXCEPT !.got = asked.got, !.load = asked.load]])

\* The request got an answer for the layer it waited for.
Continue(s, v) ==
    LET r == [v.request EXCEPT !.got = @ + 1]
        asked == AskLayers(s, r)
    IN  /\ r.got < Len(r.urls) => Idle(s) # {}
        /\ IF asked.waits
           THEN Settle(asked.s, [v EXCEPT !.request = [r EXCEPT !.got = asked.got,
                                                                !.load = asked.load]])
           ELSE Finish(asked.s, v, r)

(***************************************************************************)
(* Actions of the page.                                                    *)
(***************************************************************************)
\* The effect of Viewer3D runs: the manifest, the state of its request or the
\* precision has changed.  The run before is aborted first, and its promise
\* callbacks come after the new run has asked for its first layer.
Reload(want, level, status) ==
    LET old == viewer.request
        v == [viewer EXCEPT !.want = want, !.level = level, !.request = NoRequest]
        keeps == viewer.shown.urls # <<>> /\ (viewer.loaded = want \/ owner.preserve)
        cleared == IF keeps THEN store ELSE GiveBack(store, viewer.shown.urls)
        r == [NoRequest EXCEPT !.on = TRUE, !.urls = want, !.level = level]
        first == AskLayer([s |-> cleared, waits |-> FALSE, got |-> 0, load |-> 0,
                           level |-> level], Head(want))
        dropped == Abandon(first.s, old)
        rest == IF first.waits THEN [first EXCEPT !.s = dropped]
                ELSE AskLayers(dropped, [r EXCEPT !.got = 1])
        shown == IF keeps THEN viewer.shown ELSE NoPicture
    IN  IF want = <<>>                       \* the state of the parent is shown
        THEN Settle(Abandon(store, old), [v EXCEPT !.status = status])
        ELSE /\ Cardinality(Idle(store)) >= Len(want)
             /\ LET w == [v EXCEPT !.status = "loading", !.shown = shown]
                IN  IF rest.waits
                    THEN Settle(rest.s, [w EXCEPT !.request = [r EXCEPT !.got = rest.got,
                                                                       !.load = rest.load]])
                    ELSE Finish(rest.s, w, r)

\* A parent component passes another manifest, or none (while it has none to
\* show, its own state is what the viewer says).
SetManifest ==
    /\ viewer.mounted
    /\ \/ \E want \in Wants \ {viewer.want, <<>>} : Reload(want, "default", "loading")
       \/ \E status \in {"idle", "loading", "error"} : Reload(<<>>, "default", status)
    /\ UNCHANGED owner

\* ViewerPrecisionControl: levels that failed are disabled
ChangePrecision ==
    /\ viewer.mounted /\ viewer.shown.urls # <<>> /\ viewer.want # <<>>
    /\ \/ viewer.status = "ready" 
       \/ owner.preserve /\ viewer.status = "loading"
    /\ ~owner.cached
    /\ \E level \in Levels \ ({viewer.level} \union viewer.missing) :
          Reload(viewer.want, level, "loading")
    /\ UNCHANGED owner

\* The slice player asks for the frames that come next.
PrefetchFrames ==
    /\ viewer.mounted /\ owner.cached
    /\ \E u \in Urls \ Gltf, n \in 0..1 :
          /\ Idle(store) # {}
          /\ Settle(Prefetch(store, SubSeq(<<u>>, 1, n)), viewer)
    /\ UNCHANGED owner

\* The page leaves: the scene is disposed, the load is aborted, and the owner
\* of the cache disposes it.
Unmount ==
    /\ viewer.mounted
    /\ LET given == GiveBack(store, viewer.shown.urls)
           left == Abandon(given, viewer.request)
           bare == DisposeCache(left)
       IN  store' = [bare EXCEPT !.gone = {},
                                 !.loads = [l \in Loads |-> [bare.loads[l] EXCEPT !.reports = FALSE]]]
    /\ viewer' = [NewViewer EXCEPT !.mounted = FALSE]
    /\ UNCHANGED owner

Mount == /\ ~viewer.mounted
         /\ viewer' = NewViewer
         /\ UNCHANGED <<owner, store>>

(***************************************************************************)
(* Actions of the loader: answers from the server.                         *)
(***************************************************************************)
\* the request, or the entry of the cache, that waits for load l
ForEntry(l) == {u \in Urls : store.entries[u].st = "loading" /\ store.entries[u].load = l}
ForViewer(l) == viewer.request.on /\
    IF ForEntry(l) # {} THEN Awaited(viewer.request) \in ForEntry(l) ELSE viewer.request.load = l

\* The promise of the load is rejected.  Workers that still fetch go on.
Reject(l, left) ==
    LET u == store.loads[l].url
        ended == [store EXCEPT !.loads[l] = IF left = 0 THEN FreeLoad
                                            ELSE [@ EXCEPT !.st = "failed", !.left = left]]
        s == IF ForEntry(l) = {} THEN ended
             ELSE [ended EXCEPT !.entries[u] = NoEntry, !.recent = Without(@, u)]
    IN  IF ForViewer(l) THEN Fail(s, viewer, viewer.request) ELSE Settle(s, viewer)

\* The asset is built: its entry keeps it, and whoever waits goes on.
Resolve(l) ==
    LET u == store.loads[l].url
        freed == [store EXCEPT !.loads[l] = FreeLoad]
        s == IF ForEntry(l) = {} THEN freed
             ELSE Trim(Touch([freed EXCEPT !.entries[u].st = "ready", !.entries[u].load = 0], u))
    IN  IF ForViewer(l) THEN Continue(s, [viewer EXCEPT !.status = IF store.loads[l].reports THEN "loading" ELSE @])
        ELSE Settle(s, viewer)

ManifestArrives(l) ==
    /\ store.loads[l].st = "manifest" /\ ~store.loads[l].aborted
    /\ \/ \E n \in 1..Buffers :
             /\ store.loads[l].url \notin Gltf
             /\ store' = [store EXCEPT !.loads[l].st = "buffers", !.loads[l].left = n]
             /\ UNCHANGED viewer
       \/ store.loads[l].url \in Gltf /\ Resolve(l)
       \/ Reject(l, 0)
    /\ UNCHANGED owner

\* One worker has one more buffer: it reports progress, whoever still waits.
BufferArrives(l) ==
    /\ store.loads[l].st \in {"buffers", "failed"} /\ ~store.loads[l].aborted
    /\ LET n == store.loads[l].left - 1
           v == IF store.loads[l].reports THEN [viewer EXCEPT !.status = "loading"] ELSE viewer
       IN  IF n = 0 /\ store.loads[l].st = "buffers" THEN Resolve(l)
           ELSE /\ store' = [store EXCEPT !.loads[l] = IF n = 0 THEN FreeLoad
                                                      ELSE [@ EXCEPT !.left = n]]
                /\ viewer' = v
    /\ UNCHANGED owner

\* A buffer is missing or too large, or the asset cannot be built from them.
BufferFails(l) ==
    /\ store.loads[l].st = "buffers" /\ ~store.loads[l].aborted
    /\ Reject(l, store.loads[l].left - 1)
    /\ UNCHANGED owner

\* An aborted load of GLTFLoader ends, and what it has built is disposed.
AbortedEnds(l) ==
    /\ store.loads[l].aborted
    /\ store' = [store EXCEPT !.loads[l] = FreeLoad]
    /\ UNCHANGED <<owner, viewer>>

Loader == \E l \in Loads : \/ ManifestArrives(l) \/ BufferArrives(l)
                           \/ BufferFails(l) \/ AbortedEnds(l)

Next == \/ SetManifest \/ ChangePrecision \/ PrefetchFrames \/ Unmount \/ Mount
        \/ Loader

Spec == Init /\ [][Next]_vars

(***************************************************************************)
(* Properties.                                                             *)
(***************************************************************************)
\* Holders of url u: layers of the picture, layers obtained, and the one awaited.
Count(u, seq) == Cardinality({i \in DOMAIN seq : seq[i] = u})
Holders(u) ==
    Count(u, viewer.shown.urls)
    + (IF viewer.request.on THEN Count(u, SubSeq(viewer.request.urls, 1, viewer.request.got + 1)) ELSE 0)

\* Every cached asset is pinned as often as the viewer holds it: a layer that
\* is on the screen or on its way there cannot be evicted, and one that is
\* not can be, whatever was aborted, failed or was retained in between.
PinsMatchHolders ==
    owner.cached => \A u \in Urls \ Gltf : store.entries[u].refs = 
        IF viewer.mounted THEN Holders(u) ELSE 0

\* What the scene shows has not been disposed.
ShownAssetIsAlive == viewer.shown.alive

\* When the viewer says it is ready, it shows what it was last asked for, at
\* the precision asked for: no late answer of an earlier request is shown.
ReadyShowsWanted ==
    viewer.status = "ready" => /\ ~viewer.request.on
                               /\ viewer.shown.urls = viewer.want
                               /\ viewer.shown.level = viewer.level

\* The cache outgrows its capacity only by entries that are in use, except
\* while a load that will trim it is under way.
CacheIsBounded ==
    Size(store) > Capacity =>
        \/ \A u \in ToSet(store.recent) : ~Evictable(store, u)
        \/ \E u \in Urls : store.entries[u].st = "loading"
=============================================================================
