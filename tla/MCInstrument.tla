------------------------------ MODULE MCInstrument ------------------------------
(* Instrument with one command of its own, one standard command and one    *)
(* OVERLAY: command; the user may register each of them.                   *)
EXTENDS Instrument

CONSTANTS own, star, overlayLoad, h1, h2, om1, om2, builtin

MCBuiltIns     == <<star>>
MCOverlayNames == <<overlayLoad>>
=============================================================================
