----------------------------- MODULE MCGridFeed -----------------------------
(* GridFeed with a cap of nothing and two of something.                    *)
EXTENDS GridFeed
=============================================================================
