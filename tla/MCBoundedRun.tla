---------------------------- MODULE MCBoundedRun ----------------------------
(***************************************************************************)
(* Small instances of BoundedRun: characters of up to 3 bytes, a limit of  *)
(* one character (3 bytes captured) and chunks of 2 bytes, so that a chunk *)
(* straddles the cap and a character straddles chunks.                     *)
(***************************************************************************)
EXTENDS BoundedRun

(* One wide character and two more, over the cap; two narrow ones, over    *)
(* the limit but under the cap; a byte on each stream.                     *)
MCTexts == {[out |-> <<3, 1, 1>>, err |-> <<>>], [out |-> <<>>, err |-> <<1, 1>>],
            [out |-> <<1>>, err |-> <<1>>]}
=============================================================================
