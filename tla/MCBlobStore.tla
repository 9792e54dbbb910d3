----------------------------- MODULE MCBlobStore -----------------------------
(* Two processes; an upload of a file or a question and a worker thread    *)
(* on the first; a CAS upload, a question or a download on the second.     *)
EXTENDS BlobStore

CONSTANTS p1, p2, r1, r2, r3, h1, junk

MCProcs == {p1, p2}
MCRequests == {r1, r2, r3}
MCProcOf == [r \in MCRequests |-> IF r = r3 THEN p2 ELSE p1]
MCThreads == {r2}
MCHashes == {h1}
MCContents == {h1, junk}
MCSends == [r \in MCRequests |-> CASE r = r1 -> {"upload", "ask"}
                                   [] r = r2 -> {"job"}
                                   [] r = r3 -> {"put", "ask", "read"}]
=============================================================================
