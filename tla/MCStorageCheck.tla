---------------------------- MODULE MCStorageCheck ----------------------------
(* A version with a delivered file and a dedup list, a second version that *)
(* may patch against both of these, a review item; files are plain or  *)
(* lists, and a still is stored apart or is the content of another file.   *)
EXTENDS StorageCheck, TLC

CONSTANTS v1, v2, r1, file, dedup, next, chunk, nas, s3

MCBlobs == {file, dedup, next, chunk}
MCPlaces == {nas, s3}
MCVersions == {v1, v2}
MCReviews == {r1}
MCOpens == [e \in {v1, v2, r1} |-> CASE e = v1 -> file [] e = v2 -> next [] e = r1 -> file]
MCOptional == [e \in {v1, v2, r1} |-> IF e = v1 THEN dedup ELSE NoBlob]
MCFrames == [e \in {v1, v2, r1} |-> {}]
MCRenders == {[proxy |-> {next}, stills |-> {chunk}]}

Plain == [list |-> FALSE, chunks |-> {}, parents |-> <<>>]
ListOf(chunks, parents) == [list |-> TRUE, chunks |-> chunks, parents |-> parents]
OfChunk == ListOf({chunk}, <<>>)
MCShapes == {s \in [MCBlobs -> {Plain, OfChunk, ListOf({}, <<file>>), ListOf({}, <<dedup, file>>)}] :
               /\ s[chunk] = Plain
               /\ \/ s[file] = Plain /\ s[dedup] = OfChunk
                  \/ s[file] = OfChunk /\ s[dedup] = ListOf({}, <<file>>)
               /\ s[next] \in {Plain, ListOf({}, <<dedup, file>>)}}

MCSymmetry == Permutations(MCPlaces)
=============================================================================
