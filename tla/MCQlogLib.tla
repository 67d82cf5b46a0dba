------------------------------ MODULE MCQlogLib ------------------------------
(***************************************************************************)
(* Instances of QlogLib for TLC.                                           *)
(***************************************************************************)
EXTENDS QlogLib, TLC

CONSTANTS main, other

\* A thread that opens and closes the library next to one that only uses it:
\* two creates, two toggles, a dump next to each call it can disturb.
LibCalls == main :> {"init", "cleanup", "create", "dump", "toggle"}
         @@ other :> {"create", "reset", "log", "toggle"}

\* A main thread and one that creates buffers, too.
CreateCalls == main :> {"init", "create"} @@ other :> {"create", "reset"}

\* One thread cleans up while the other logs.
CleanupCalls == main :> {"init", "cleanup"} @@ other :> {"log"}

=============================================================================
