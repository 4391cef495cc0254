--------------------------- MODULE MCRedirection ---------------------------
(***************************************************************************)
(* Messages with no broker, one, two of each kind, three and too many.     *)
(***************************************************************************)
EXTENDS Redirection

Redirect(v4, v6, dn) == [IPV4 |-> v4, IPV6 |-> v6, FQDN |-> dn]
MCMessages ==
  {Redirect(0, 0, 0), Redirect(1, 0, 0), Redirect(1, 1, 0), Redirect(1, 0, 1),
   Redirect(2, 1, 0), Redirect(2, 1, 1)}
=============================================================================
