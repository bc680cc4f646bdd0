---------------------------- MODULE MCAzureExport ----------------------------
(***************************************************************************)
(* Instances of AzureExport for TLC.                                        *)
(***************************************************************************)
EXTENDS AzureExport

\* A disk of 6 bytes followed by the VHD footer: two overlapping ranges, out of order, of which one reaches
\* into the footer; a range that a chunk boundary cuts; and a disk on which nothing was ever written.
Pages == { << <<4, 3>>, <<0, 3>>, <<1, 1>> >>, << <<1, 4>> >>, <<>> }

ChunksOf(listings) == {Split(Merge(l, Limit), ChunkBytes) : l \in listings}
Chunks   == ChunksOf(Pages)

\* A logout and a restart are of no consequence to each other; nor is the age of a SAS to them.  A cancel request
\* that is under way while the thread goes on, or while the helper stops, comes on its own.
Apart  == {{"age", "cancel"}, {"cancel", "logout", "restart"}, {"late", "restart"}}

Captures   == {"deallocate", "snapshot"}
================================================================================
