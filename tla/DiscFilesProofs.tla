--------------------------- MODULE DiscFilesProofs ---------------------------
(***************************************************************************)
(* Theorems about DiscFiles, for any discs and names of files.             *)
(***************************************************************************)
EXTENDS DiscFiles, TLAPS

\* Files that are not twins have previews of their own, as have those of two discs.
LEMMA OutputPathSeparates ==
  ASSUME NEW u \in UUIDs, NEW v \in UUIDs, NEW n \in Names, NEW m \in Names,
         OutputPath(u, n) = OutputPath(v, m)
  PROVE  u = v /\ Twins(n, m)
<1>1. u = v /\ previewBase(u, n) = previewBase(v, m)
  BY DEF OutputPath
<1>2. n.stem \in Stems \cup {NoStem} /\ m.stem \in Stems \cup {NoStem}
  BY NamesAssumption
<1>3. n.stem = m.stem
  BY <1>1, <1>2, NamesAssumption DEF previewBase, Bases
<1> QED
  BY <1>1, <1>3 DEF Twins

LEMMA OutputPathIsPath ==
  ASSUME NEW u \in UUIDs, NEW n \in Names
  PROVE  OutputPath(u, n) \in Paths
<1>1. n.stem \in Stems \cup {NoStem}
  BY NamesAssumption
<1> QED
  BY <1>1 DEF OutputPath, previewBase, Paths, Bases

\* What a listing is.
Listing == UNION {[S -> Paths \cup {None}] : S \in SUBSET Names}

LEMMA ListingIsFunction ==
  \A l : l \in Listing <=> /\ DOMAIN l \subseteq Names
                           /\ l = [n \in DOMAIN l |-> l[n]]
                           /\ \A n \in DOMAIN l : l[n] \in Paths \cup {None}
  BY DEF Listing

\* The order of a loop: every file is in it, once.
LEMMA OrderIsOnto ==
  ASSUME NEW S, NEW order \in Bijection(S, S)
  PROVE  /\ order \in [S -> S]
         /\ \A n, m \in S : order[n] = order[m] => n = m
         /\ \A n \in S : \E m \in S : order[m] = n
<1>1. order \in [S -> S] /\ IsInjective(order) /\ \A t \in S : \E m \in S : order[m] = t
  BY DEF Bijection, Injection, Surjection
<1> QED
  BY <1>1 DEF IsInjective

LEMMA OrderOfFirst ==
  ASSUME NEW S
  PROVE  [n \in S |-> n] \in Bijection(S, S)
BY DEF Bijection, Injection, Surjection, IsInjective

LEMMA InitHolds == Init => IInv
<1> SUFFICES ASSUME Init PROVE IInv
  OBVIOUS
<1>1. [n \in {} |-> None] \in Listing
  BY DEF Listing
<1>2. \A u \in UUIDs : files[u] = [n \in {} |-> None] /\ loop[u] = [n \in {} |-> None]
  BY DEF Init
<1>3. \A u \in UUIDs : DOMAIN files[u] = {} /\ loop[u] = [n \in {} |-> n]
  BY <1>2
<1>4. \A u \in UUIDs : loop[u] \in Bijection(DOMAIN files[u], DOMAIN files[u])
  BY <1>3, OrderOfFirst
<1>5. TypeOK
  BY <1>1, <1>4 DEF Init, TypeOK, Listing
<1>6. Listed /\ Shown
  BY <1>3 DEF Init, Listed, Shown
<1>7. Delivered /\ Owned /\ Written
  BY OutputPathIsPath DEF Init, Delivered, Owned, Written
<1> QED
  BY <1>5, <1>6, <1>7 DEF IInv

\* What a step of one disc leaves alone of another one.
Keeps(v) ==
  /\ step'[v] = step[v] /\ results'[v] = results[v]
  /\ loop'[v] = loop[v] /\ files'[v] = files[v]

LEMMA ListVideoFilesHolds ==
  ASSUME IInv, NEW u \in UUIDs, ListVideoFiles(u)
  PROVE  IInv'
<1> DEFINE videos == {n \in Names : IsVideo(u, n)}
<1> DEFINE new == [n \in videos |-> None]
<1>1. /\ step[u] = "list" /\ files' = [files EXCEPT ![u] = new]
      /\ loop' = [loop EXCEPT ![u] = [n \in videos |-> n]]
      /\ step' = [step EXCEPT ![u] = "mkdir"]
      /\ UNCHANGED <<isDir, entries, results, made, preview, written>>
  BY DEF ListVideoFiles
<1>2. new \in Listing
  <2>1. videos \in SUBSET Names
    OBVIOUS
  <2>2. new \in [videos -> Paths \cup {None}]
    OBVIOUS
  <2> HIDE DEF new, videos
  <2> QED
    BY <2>1, <2>2 DEF Listing
<1>3. /\ files'[u] = new /\ loop'[u] = [n \in videos |-> n] /\ step'[u] = "mkdir"
      /\ results'[u] = {} /\ DOMAIN files[u] = {}
      /\ \A v \in UUIDs \ {u} : Keeps(v)
  BY <1>1 DEF IInv, TypeOK, Listed, Delivered, Keeps
<1>4. DOMAIN files'[u] = videos /\ \A n \in videos : files'[u][n] = None
  BY <1>3
<1>5. \A n \in Names : <<u, n>> \notin written /\ preview[OutputPath(u, n)] = None
  BY <1>3 DEF IInv, Owned, Written
<1>6. loop'[u] \in Bijection(DOMAIN files'[u], DOMAIN files'[u])
  BY <1>3, <1>4, OrderOfFirst
<1>7. videos = {n \in Names : IsVideo(u, n)'}
  BY <1>1 DEF IsVideo
<1> HIDE DEF new, videos
<1>8. TypeOK'
  <2>1. files' \in [UUIDs -> Listing] /\ step' \in [UUIDs -> {"list", "mkdir", "diagnose", "done", "closed"}]
    BY <1>1, <1>2 DEF IInv, TypeOK, Listing
  <2>2. \A v \in UUIDs : loop'[v] \in Bijection(DOMAIN files'[v], DOMAIN files'[v])
    BY <1>3, <1>6 DEF IInv, TypeOK, Keeps
  <2> QED
    BY <1>1, <2>1, <2>2 DEF IInv, TypeOK, Listing
<1>9. Listed'
  BY <1>1, <1>3, <1>4, <1>7 DEF IInv, Listed, IsVideo, Keeps
<1>10. Shown'
  <2>1. ASSUME NEW v \in UUIDs, NEW n \in DOMAIN files'[v]
        PROVE  files'[v][n] = IF \E m \in results'[v] : loop'[v][m] = n THEN OutputPath(v, n) ELSE None
    BY <1>3, <1>4 DEF IInv, Shown, Keeps
  <2> QED
    BY <2>1 DEF Shown, OutputPath, previewBase
<1>11. Delivered'
  BY <1>1, <1>3 DEF IInv, Delivered, Keeps
<1>12. ASSUME NEW v \in UUIDs, NEW n \in Names, preview[OutputPath(v, n)] # None
       PROVE  \E m \in DOMAIN files'[v] : Twins(n, m) /\ preview[OutputPath(v, n)] = <<v, m>>
  BY <1>3, <1>5, <1>12 DEF IInv, Owned, Keeps
<1>13. ASSUME NEW v \in UUIDs, NEW n \in Names, <<v, n>> \in written
       PROVE  n \in DOMAIN files'[v] /\ preview[OutputPath(v, n)] # None
  BY <1>3, <1>5, <1>13 DEF IInv, Written, Keeps
<1>14. Owned'
  BY <1>1, <1>12 DEF Owned, OutputPath, previewBase
<1>15. Written'
  BY <1>1, <1>13 DEF Written, OutputPath, previewBase
<1> QED
  BY <1>8, <1>9, <1>10, <1>11, <1>14, <1>15 DEF IInv

\* Steps that change no listing, result or preview.
LEMMA StepsHold ==
  ASSUME IInv, NEW u \in UUIDs, MkDir(u) \/ Completes(u) \/ Closes(u)
  PROVE  IInv'
<1>1. /\ UNCHANGED <<isDir, entries, results, loop, files, preview, written>>
      /\ \A v \in UUIDs : \/ step'[v] = step[v]
                          \/ step[v] = "mkdir" /\ step'[v] = "diagnose"
                          \/ results[v] = DOMAIN files[v] /\ step[v] = "diagnose" /\ step'[v] = "done"
                          \/ step'[v] = "closed"
  BY DEF IInv, TypeOK, MkDir, Completes, Closes
<1>2. step' \in [UUIDs -> {"list", "mkdir", "diagnose", "done", "closed"}] /\ made' \in SUBSET UUIDs
  BY DEF IInv, TypeOK, MkDir, Completes, Closes
<1>3. TypeOK'
  BY <1>1, <1>2 DEF IInv, TypeOK
<1>4. Listed' /\ Delivered'
  BY <1>1 DEF IInv, Listed, Delivered, IsVideo
<1>5. Shown' /\ Owned' /\ Written'
  BY <1>1 DEF IInv, Shown, Owned, Written, OutputPath, previewBase
<1> QED
  BY <1>3, <1>4, <1>5 DEF IInv

\* A transcode writes over the previews of twins only.
LEMMA TranscodesHolds ==
  ASSUME IInv, NEW v \in UUIDs, NEW k \in Names, Transcodes(v, k)
  PROVE  IInv'
<1>1. /\ k \in DOMAIN files[v]
      /\ preview' = [preview EXCEPT ![OutputPath(v, k)] = <<v, k>>]
      /\ written' = written \cup {<<v, k>>}
      /\ UNCHANGED <<isDir, entries, step, results, loop, files, made>>
  BY DEF Transcodes
<1>2. OutputPath(v, k) \in Paths
  BY OutputPathIsPath
<1>3. TypeOK'
  BY <1>1, <1>2 DEF IInv, TypeOK
<1>4. Listed' /\ Shown' /\ Delivered'
  BY <1>1 DEF IInv, Listed, IsVideo, Shown, Delivered, OutputPath, previewBase
<1>5. ASSUME NEW u \in UUIDs, NEW n \in Names
      PROVE  /\ preview'[OutputPath(u, n)] # None =>
                  \E m \in DOMAIN files[u] : Twins(n, m) /\ preview'[OutputPath(u, n)] = <<u, m>>
             /\ <<u, n>> \in written' => n \in DOMAIN files[u] /\ preview'[OutputPath(u, n)] # None
  <2>1. OutputPath(u, n) \in Paths
    BY OutputPathIsPath
  <2>2. CASE OutputPath(u, n) = OutputPath(v, k)
    <3>1. u = v /\ Twins(n, k)
      BY <2>2, OutputPathSeparates
    <3>2. preview'[OutputPath(u, n)] = <<v, k>> /\ <<v, k>> # None
      BY <1>1, <1>2, <2>2, NamesAssumption DEF IInv, TypeOK
    <3>3. <<u, n>> \in written' => n \in DOMAIN files[u]
      BY <1>1 DEF IInv, Written
    <3> QED
      BY <1>1, <3>1, <3>2, <3>3
  <2>3. CASE OutputPath(u, n) # OutputPath(v, k)
    <3>1. <<u, n>> \in written' => <<u, n>> \in written
      BY <1>1, <2>3
    <3>2. preview'[OutputPath(u, n)] = preview[OutputPath(u, n)]
      BY <1>1, <2>1, <2>3 DEF IInv, TypeOK
    <3> QED
      BY <3>1, <3>2 DEF IInv, Owned, Written
  <2> QED
    BY <2>2, <2>3
<1>6. Owned' /\ Written'
  BY <1>1, <1>5 DEF Owned, Written, OutputPath, previewBase
<1> QED
  BY <1>3, <1>4, <1>6 DEF IInv

\* A new State with the same entries, of a copy whose loop has an order of its own.
LEMMA ListingChanges ==
  ASSUME IInv, NEW u \in UUIDs,
         files' = [files EXCEPT ![u] = files'[u]],
         files'[u] \in [DOMAIN files[u] -> Paths \cup {None}],
         DOMAIN loop' = UUIDs,
         loop'[u] \in Bijection(DOMAIN files[u], DOMAIN files[u]),
         results' \in [UUIDs -> SUBSET Names],
         \A n \in results'[u] : <<u, n>> \in written,
         step[u] = "diagnose" \/ results'[u] = results[u],
         \A v \in UUIDs \ {u} : Keeps(v),
         \A n \in DOMAIN files[u] :
           files'[u][n] = IF \E m \in results'[u] : loop'[u][m] = n THEN OutputPath(u, n) ELSE None,
         UNCHANGED <<isDir, entries, step, made, preview, written>>
  PROVE  IInv'
<1>1. files \in [UUIDs -> Listing] /\ files[u] \in Listing
  BY DEF IInv, TypeOK, Listing
<1>2. DOMAIN files[u] \in SUBSET Names
  BY <1>1, ListingIsFunction
<1>3. files'[u] \in Listing /\ DOMAIN files'[u] = DOMAIN files[u]
  BY <1>2 DEF Listing
<1>4. \A v \in UUIDs : DOMAIN files'[v] = DOMAIN files[v]
  BY <1>3 DEF Keeps
<1>5. TypeOK'
  <2>1. files' \in [UUIDs -> Listing]
    BY <1>1, <1>3
  <2>2. \A v \in UUIDs : loop'[v] \in Bijection(DOMAIN files'[v], DOMAIN files'[v])
    BY <1>4 DEF IInv, TypeOK, Keeps
  <2> QED
    BY <2>1, <2>2 DEF IInv, TypeOK, Listing
<1>6. Listed'
  BY <1>4 DEF IInv, Listed, IsVideo
<1>7. Shown'
  <2>1. ASSUME NEW v \in UUIDs, NEW n \in DOMAIN files'[v]
        PROVE  files'[v][n] = IF \E m \in results'[v] : loop'[v][m] = n THEN OutputPath(v, n) ELSE None
    BY <1>4 DEF IInv, Shown, Keeps
  <2> QED
    BY <2>1 DEF Shown, OutputPath, previewBase
<1>8. Delivered'
  BY <1>4 DEF IInv, Delivered, Keeps
<1>9. ASSUME NEW v \in UUIDs, NEW n \in Names, preview[OutputPath(v, n)] # None
      PROVE  \E m \in DOMAIN files'[v] : Twins(n, m) /\ preview[OutputPath(v, n)] = <<v, m>>
  BY <1>4, <1>9 DEF IInv, Owned
<1>10. ASSUME NEW v \in UUIDs, NEW n \in Names, <<v, n>> \in written
       PROVE  n \in DOMAIN files'[v] /\ preview[OutputPath(v, n)] # None
  BY <1>4, <1>10 DEF IInv, Written
<1>11. Owned'
  BY <1>9 DEF Owned, OutputPath, previewBase
<1>12. Written'
  BY <1>10 DEF Written, OutputPath, previewBase
<1> QED
  BY <1>5, <1>6, <1>7, <1>8, <1>11, <1>12 DEF IInv

LEMMA OnPreviewHolds ==
  ASSUME IInv, NEW u \in UUIDs, NEW k \in Names, OnPreview(u, k)
  PROVE  IInv'
<1>1. /\ step[u] = "diagnose" /\ <<u, k>> \in written
      /\ results' = [results EXCEPT ![u] = @ \cup {k}]
      /\ files' = [files EXCEPT ![u][loop[u][k]] = OutputPath(u, loop[u][k])]
      /\ UNCHANGED <<isDir, entries, step, loop, made, preview, written>>
  BY DEF OnPreview
<1>2. loop[u] \in Bijection(DOMAIN files[u], DOMAIN files[u]) /\ DOMAIN loop = UUIDs
  BY DEF IInv, TypeOK
<1>3. /\ loop[u] \in [DOMAIN files[u] -> DOMAIN files[u]]
      /\ \A n, m \in DOMAIN files[u] : loop[u][n] = loop[u][m] => n = m
  BY <1>2, OrderIsOnto
<1>4. files \in [UUIDs -> Listing] /\ files[u] \in Listing
  BY DEF IInv, TypeOK, Listing
<1>5. /\ DOMAIN files[u] \subseteq Names
      /\ files[u] \in [DOMAIN files[u] -> Paths \cup {None}]
  BY <1>4, ListingIsFunction
<1>6. k \in DOMAIN files[u]
  BY <1>1 DEF IInv, Written
<1>7. OutputPath(u, loop[u][k]) \in Paths
  BY <1>3, <1>5, <1>6, OutputPathIsPath
<1>8. /\ files'[u] = [files[u] EXCEPT ![loop[u][k]] = OutputPath(u, loop[u][k])]
      /\ files' = [files EXCEPT ![u] = files'[u]]
      /\ \A v \in UUIDs \ {u} : files'[v] = files[v]
  BY <1>1, <1>4
<1>9. files'[u] \in [DOMAIN files[u] -> Paths \cup {None}]
  BY <1>5, <1>7, <1>8
<1>10. /\ results' \in [UUIDs -> SUBSET Names]
       /\ results'[u] = results[u] \cup {k} /\ \A v \in UUIDs \ {u} : results'[v] = results[v]
  BY <1>1 DEF IInv, TypeOK
<1>11. \A n \in results[u] : <<u, n>> \in written
  BY DEF IInv, Delivered
<1>12. ASSUME NEW n \in DOMAIN files[u]
       PROVE  files'[u][n] = IF \E m \in results'[u] : loop'[u][m] = n THEN OutputPath(u, n) ELSE None
  <2>1. loop'[u] = loop[u]
    BY <1>1
  <2>2. files[u][n] = IF \E m \in results[u] : loop[u][m] = n THEN OutputPath(u, n) ELSE None
    BY DEF IInv, Shown
  <2>3. CASE n = loop[u][k]
    BY <1>5, <1>8, <1>10, <2>1, <2>3
  <2>4. CASE n # loop[u][k]
    <3>1. files'[u][n] = files[u][n]
      BY <1>5, <1>8, <2>4
    <3>2. (\E m \in results'[u] : loop[u][m] = n) <=> (\E m \in results[u] : loop[u][m] = n)
      BY <1>10, <2>4
    <3> QED
      BY <2>1, <2>2, <3>1, <3>2
  <2> QED
    BY <2>3, <2>4
<1>13. \A n \in results'[u] : <<u, n>> \in written
  BY <1>1, <1>10, <1>11
<1>14. DOMAIN loop' = UUIDs /\ loop'[u] \in Bijection(DOMAIN files[u], DOMAIN files[u])
  BY <1>1, <1>2
<1>15. \A v \in UUIDs \ {u} : Keeps(v)
  BY <1>1, <1>8, <1>10 DEF Keeps
<1> QED
  BY <1>1, <1>8, <1>9, <1>10, <1>12, <1>13, <1>14, <1>15, ListingChanges

LEMMA ReplaysHolds ==
  ASSUME IInv, NEW u \in UUIDs, Replays(u)
  PROVE  IInv'
<1>1. PICK order \in Bijection(DOMAIN files[u], DOMAIN files[u]) :
        /\ loop' = [loop EXCEPT ![u] = order]
        /\ files' = [files EXCEPT ![u] =
                       [n \in DOMAIN @ |->
                          IF n \in {order[m] : m \in results[u]} THEN OutputPath(u, n) ELSE None]]
  BY DEF Replays
<1>2. UNCHANGED <<isDir, entries, step, results, made, preview, written>>
  BY DEF Replays
<1>3. files \in [UUIDs -> Listing] /\ DOMAIN loop = UUIDs
  BY DEF IInv, TypeOK, Listing
<1>4. /\ files'[u] = [n \in DOMAIN files[u] |->
                        IF n \in {order[m] : m \in results[u]} THEN OutputPath(u, n) ELSE None]
      /\ files' = [files EXCEPT ![u] = files'[u]]
      /\ loop'[u] = order /\ DOMAIN loop' = UUIDs
  BY <1>1, <1>3
<1>5. \A v \in UUIDs \ {u} : Keeps(v)
  BY <1>1, <1>2, <1>3 DEF Keeps
<1>6. \A n \in DOMAIN files[u] : OutputPath(u, n) \in Paths
  <2>1. \A n \in DOMAIN files[u] : n \in Names
    BY <1>3, ListingIsFunction
  <2> QED
    BY <2>1, OutputPathIsPath
<1>7. files'[u] \in [DOMAIN files[u] -> Paths \cup {None}]
  BY <1>4, <1>6
<1>8. \A n \in DOMAIN files[u] :
        files'[u][n] = IF \E m \in results'[u] : loop'[u][m] = n THEN OutputPath(u, n) ELSE None
  BY <1>2, <1>4
<1>9. /\ results' \in [UUIDs -> SUBSET Names]
      /\ \A n \in results'[u] : <<u, n>> \in written
  BY <1>2 DEF IInv, TypeOK, Delivered
<1> QED
  BY <1>1, <1>2, <1>4, <1>5, <1>7, <1>8, <1>9, ListingChanges

LEMMA NextHolds ==
  ASSUME IInv, [Next]_vars
  PROVE  IInv'
<1>1. CASE UNCHANGED vars
  <2>1. TypeOK'
    BY <1>1 DEF vars, IInv, TypeOK
  <2>2. Listed' /\ Shown' /\ Delivered' /\ Owned' /\ Written'
    BY <1>1 DEF vars, IInv, Listed, IsVideo, Shown, Delivered, Owned, Written, OutputPath, previewBase
  <2> QED
    BY <2>1, <2>2 DEF IInv
<1>2. CASE Next
  BY <1>2, ListVideoFilesHolds, StepsHold, TranscodesHolds, OnPreviewHolds, ReplaysHolds DEF Next
<1> QED
  BY <1>1, <1>2

-----------------------------------------------------------------------------
(* Theorems *)

\* The inductive invariant: what a copy shows is what the history has for its loop, and the
\* previews are where the names of their files say.
THEOREM IInvInvariant == Spec => []IInv
<1>1. Init => IInv
  BY InitHolds
<1>2. IInv /\ [Next]_vars => IInv'
  BY NextHolds
<1> QED
  BY <1>1, <1>2, PTL DEF Spec

\* The directories, listings, orders and previews keep to their types.
THEOREM TypeCorrect == Spec => []TypeOK
<1>1. IInv => TypeOK
  BY DEF IInv
<1> QED
  BY <1>1, IInvInvariant, PTL

\* A path that is shown is the file's.
LEMMA ShownIsOwn ==
  ASSUME IInv, NEW u \in UUIDs, NEW n \in DOMAIN files[u]
  PROVE  n \in Names /\ (files[u][n] # None => files[u][n] = OutputPath(u, n))
<1>1. n \in Names
  BY ListingIsFunction DEF IInv, TypeOK, Listing
<1> QED
  BY <1>1 DEF IInv, Shown

\* No disc's preview is shown for another disc, and no file's for another one
\* (disc.go:101, 149-159, 167-176), whatever orders the copies loop in, but for names that
\* differ in the case of the extension.
THEOREM PreviewsAreOwn == Spec => []PreviewIsOfItsFile
<1>1. IInv => PreviewIsOfItsFile
  BY ShownIsOwn DEF IInv, Owned, PreviewIsOfItsFile
<1> QED
  BY <1>1, IInvInvariant, PTL

\* A run that is done shows previews, which are there, of all the videos of its directory
\* (list_video_files.go:42, disc.go:178-181), for any names, and after any replays.
THEOREM PreviewsAreComplete == Spec => []VideosArePreviewed
<1>1. ASSUME IInv, NEW u \in UUIDs, NEW n \in Names,
             step[u] = "done", entries[u][n] = "plain", n.ext \in {".mkv", ".MKV"}
      PROVE  /\ n \in DOMAIN files[u] /\ files[u][n] # None
             /\ \E m \in Names : Twins(n, m) /\ preview[files[u][n]] = <<u, m>>
  <2>1. n \in DOMAIN files[u]
    BY <1>1 DEF IInv, Listed, IsVideo, ToLower
  <2>2. results[u] = DOMAIN files[u] /\ <<u, n>> \in written
    BY <1>1, <2>1 DEF IInv, Delivered
  <2>3. \E m \in results[u] : loop[u][m] = n
    BY <1>1, <2>1, <2>2, OrderIsOnto DEF IInv, TypeOK
  <2>4. files[u][n] = OutputPath(u, n) /\ OutputPath(u, n) \in Paths
    BY <1>1, <2>1, <2>3, OutputPathIsPath DEF IInv, Shown
  <2>5. OutputPath(u, n) # None
    BY <2>4, NamesAssumption
  <2>6. \E m \in DOMAIN files[u] : Twins(n, m) /\ preview[OutputPath(u, n)] = <<u, m>>
    BY <1>1, <2>2 DEF IInv, Owned, Written
  <2> QED
    BY <1>1, <2>1, <2>4, <2>5, <2>6, ShownIsOwn
<1>2. IInv => VideosArePreviewed
  BY <1>1 DEF VideosArePreviewed
<1> QED
  BY <1>2, IInvInvariant, PTL
=============================================================================
