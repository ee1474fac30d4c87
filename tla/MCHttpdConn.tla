---------------------------- MODULE MCHttpdConn ----------------------------
(***************************************************************************)
(* The web server for TLC: uploads whose images begin and end on either    *)
(* side of the end of a block, a page and a sector, files that are         *)
(* rejected, and files that end early or late.                             *)
(***************************************************************************)
EXTENDS HttpdConnInvariant

MCPages ==
  {Form(0, FALSE), Form(2, TRUE),
   File(1, TRUE, TRUE), File(1, FALSE, TRUE), File(1, FALSE, FALSE)}

Combined(right, user1, len1, len2, size) == Image("OTA", right, FALSE, user1, len1, len2, size)
Plain(size) == Image("BIN", TRUE, FALSE, TRUE, 0, 0, size)
MCUploads ==
  {Upload(Combined(TRUE, FALSE, 2, 5, 8), TRUE), Upload(Combined(TRUE, TRUE, 5, 0, 8), FALSE),
   Upload(Combined(TRUE, FALSE, 3, 4, 7), TRUE), Upload(Combined(FALSE, TRUE, 2, 1, 4), TRUE),
   Upload(Plain(7), FALSE), Upload(Plain(0), TRUE),
   Upload(Combined(TRUE, TRUE, 0, 0, 1), TRUE)}
=============================================================================
