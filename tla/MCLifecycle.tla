---------------------------- MODULE MCLifecycle ----------------------------
(* Two operators; the namespaces, the certificates and two releases, one    *)
(* with generated credentials and one with images, deployed together or one *)
(* at a time.                                                               *)
EXTENDS Lifecycle, TLC

MCComponents == <<"foundation", "certificates", "identity", "services">>
MCSelections == {{"certificates"}, {"identity"}, {"services"}, ToSet(MCComponents)}
CommandSymmetry == Permutations(Command)
\* Commands that overlap and a recovery that was left behind are reached, and
\* not followed: beyond them the properties claim no more than types.
Unmixed == ~mishaps.loose
=============================================================================
