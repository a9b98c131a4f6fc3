-------------------------------- MODULE Bot ---------------------------------
(***************************************************************************)
(* What the components of the running bot have in common.  The telegram    *)
(* library starts a coroutine for every update (bot/main.py,               *)
(* concurrent_updates(True)), so several are in hand at once, and every    *)
(* await of one is a place where another may run.                          *)
(***************************************************************************)
CONSTANTS
  Handlers,   \* the updates, and their turns, that may be in hand at once
  None        \* SQL NULL, and Python's None
=============================================================================
