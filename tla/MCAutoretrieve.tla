--------------------------- MODULE MCAutoretrieve ---------------------------
(* Instances of Autoretrieve for TLC. Autoretrieve handles are model       *)
(* values given in the .cfg files; the sets of failing calls are below.    *)
EXTENDS Autoretrieve, TLC

\* Every call of the loop may fail.
MCAllFaults == {"read", "put", "remove", "write"}
\* Reads and network calls may fail; ledger writes do not.
MCNoWriteFaults == {"read", "put", "remove"}
\* Reads and retractions fail; announcements and ledger writes do not.
MCReadRemoveFaults == {"read", "remove"}
\* Only announcements fail.
MCPutFaults == {"put"}
\* Only ledger writes fail.
MCWriteFaults == {"write"}
MCNoFaults == {}

MCSymmetry == Permutations(Nodes)
=============================================================================
