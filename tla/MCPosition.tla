---------------------------- MODULE MCPosition -----------------------------
(* Small instances of Position for TLC.                                    *)
EXTENDS Position

============================================================================
