------------------------------ MODULE WsprLine ------------------------------
(***************************************************************************)
(* decode.rs: from the text of ALL_WSPR.TXT to spots, and from a spot to   *)
(* its ClickHouse row.                                                     *)
(*                                                                         *)
(* A line is the sequence of its words.  A word is a record: its text, the *)
(* Rust types that parse it, and the characters that is_grid_square looks  *)
(* at, each as the set of classes it belongs to.  Numbers keep their text. *)
(***************************************************************************)
EXTENDS Integers, SequencesExt

CONSTANTS NoSpot,   \* Err(SpotParseFailed)
          NoGrid    \* the empty string in a spot's grid

Io == "Io"
WsprdFailed == "WsprdFailed"

DaySeconds == 86400

\* struct WsprSpot, with these texts for numbers and names.
WsprSpot(Texts) ==
  [time_utc : Nat \X Nat, snr_db : Texts, dt_sec : Texts, freq_hz : Texts,
   callsign : Texts, grid : Texts \cup {NoGrid}, message : Seq(Texts),
   power_dbm : Texts, drift : Texts, sync_quality : Texts, npass : Texts,
   osd_pass : Texts, nhardmin : Texts, decode_cycles : Texts,
   candidates : Texts, nfano : Texts]

\* A word of class letters: "major" is A to R, "minor" A to X, "digit" 0 to 9,
\* in either case.
IsGridSquare(word) ==
  LET c == word.chars
      four == /\ "major" \in c[1] /\ "major" \in c[2]
              /\ "digit" \in c[3] /\ "digit" \in c[4]
  IN  \/ Len(c) = 4 /\ four
      \/ Len(c) = 6 /\ four /\ "minor" \in c[5] /\ "minor" \in c[6]

\* The HHMM of a time in seconds since the epoch.
HhmmUtc(t) == <<(t % DaySeconds) \div 3600, (t % 3600) \div 60>>

\* f[i].parse::<type>() succeeds; i counts from 0 as in the code.
Parses(f, i, type) == type \in f[i + 1].types

\* The columns behind the callsign or the grid, from the power on; the seventh
\* (nbadcrc) is skipped.
Columns == <<"i32", "i32", "f32", "u8", "u8", "i32", "any", "u32", "u32", "i32">>

\* The index of the power field.
Base(f) == IF IsGridSquare(f[7]) THEN 7 ELSE 6

Ncycles_NoSkip == 6  \* mutant: nbadcrc is not skipped

\* Where the columns go on behind nbadcrc, counted from the power.
Ncycles == 7

\* parse_all_wspr_line; further words behind the last column are ignored.
ParseAllWsprLine(f, window_start) ==
  IF \/ Len(f) < 16
     \/ Len(f) < Base(f) + 10
     \/ ~Parses(f, 2, "i32") \/ ~Parses(f, 3, "f32") \/ ~Parses(f, 4, "f64")
     \/ \E c \in 1 .. 10 : Columns[c] # "any" /\ ~Parses(f, Base(f) + c - 1, Columns[c])
  THEN NoSpot
  ELSE LET At(i)   == f[i + 1].text
           b       == Base(f)
           grid    == IF b = 7 THEN At(6) ELSE NoGrid
       IN  [time_utc |-> HhmmUtc(window_start), snr_db |-> At(2), dt_sec |-> At(3),
            freq_hz |-> At(4), callsign |-> At(5), grid |-> grid,
            message |-> IF grid = NoGrid THEN <<At(5), At(b)>>
                        ELSE <<At(5), grid, At(b)>>,
            power_dbm |-> At(b), drift |-> At(b + 1), sync_quality |-> At(b + 2),
            npass |-> At(b + 3), osd_pass |-> At(b + 4), nhardmin |-> At(b + 5),
            decode_cycles |-> At(b + Ncycles), candidates |-> At(b + Ncycles + 1),
            nfano |-> At(b + Ncycles + 2)]

\* filter_map's closure: a blank line or an unreadable one gives nothing.
SpotsOfLine(line, window_start) ==
  LET spot == ParseAllWsprLine(line, window_start)
  IN  IF spot = NoSpot THEN <<>> ELSE <<spot>>

\* parse_all_wspr_txt
ParseAllWsprTxt(lines, window_start) ==
  FlattenSeq([i \in 1 .. Len(lines) |-> SpotsOfLine(lines[i], window_start)])

RunWsprd_AnyError(exit, txt, window_start) ==  \* mutant: every read error is "not found"
  IF exit = "not spawned" THEN [err |-> Io]
  ELSE IF exit # "success" THEN [err |-> WsprdFailed]
  ELSE IF txt.read # "read" THEN [ok |-> <<>>]
  ELSE [ok |-> ParseAllWsprTxt(txt.lines, window_start)]

\* run_wsprd: how the process ended, and what read_to_string says of the
\* ALL_WSPR.TXT that it left, whose lines it gives only all together.
RunWsprd(exit, txt, window_start) ==
  IF exit = "not spawned" THEN [err |-> Io]
  ELSE IF exit # "success" THEN [err |-> WsprdFailed]
  ELSE IF txt.read = "not found" THEN [ok |-> <<>>]
  ELSE IF txt.read # "read" THEN [err |-> Io]
  ELSE [ok |-> ParseAllWsprTxt(txt.lines, window_start)]

\* WsprSpotRow::from_spot: the spot and the second its window began.
FromSpot(spot, window_start) ==
  [column \in DOMAIN spot \cup {"window_start_unix"} |->
     IF column = "window_start_unix" THEN window_start ELSE spot[column]]
=============================================================================
