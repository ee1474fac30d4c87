----------------------------- MODULE StreamList -----------------------------
(***************************************************************************)
(* The list of stations, a file of lines "name;address" that is read at    *)
(* the start (user/control.c).                                             *)
(***************************************************************************)
EXTENDS Strtol

SEMICOLON == 59
NoStations == [stream_name |-> <<>>, stream_address |-> <<>>]

(* The fields are copied into the next element of an array of three.       *)
MutantNextLine(rest) == Cut(rest, <<CR>>)
NextLine(rest) == Cut(rest, CRLF)
RECURSIVE ParseFrom(_, _)
ParseFrom(list, start_pos) ==
  LET name == Cut(start_pos, <<SEMICOLON>>)
      address == NextLine(name.behind)
      named == [list EXCEPT !.stream_name = Append(@, name.before)]
  IN  IF ~name.found THEN list
      ELSE IF ~address.found THEN named
      ELSE ParseFrom([named EXCEPT !.stream_address = Append(@, address.before)], address.behind)
Control_vParseStreamTxt(data) == ParseFrom(NoStations, data)

(* The memory the file is read into is just as long as the file; what is   *)
(* behind it, up to the next zero byte, is parsed with it.                 *)
Control_ptrReadStreamTxt(content, heap) == content \o heap
Control_vGetStreamCount(content, heap) ==
  Control_vParseStreamTxt(Control_ptrReadStreamTxt(content, heap))
=============================================================================
