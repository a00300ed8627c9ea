---------------------------- MODULE MCLinkScript ----------------------------
(***************************************************************************)
(* LinkScript with two levels and pages of four bytes; sizes around the    *)
(* limits of one and three pages.                                          *)
(***************************************************************************)
EXTENDS LinkScript

MCSizes == {0, 1, Page, Page + 1, 3 * Page, 3 * Page + 1}

MCStarts == {4 * Page, 4 * Page + 3}
=============================================================================
