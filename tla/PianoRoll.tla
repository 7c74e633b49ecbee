----------------------------- MODULE PianoRoll -----------------------------
(***************************************************************************)
(* The notes of a MIDI track, as the two readers of tracks find them, and  *)
(* the image made of them.  A track is a sequence of messages              *)
(* [wait, kind, key]: wait is the time since the message before, in ticks; *)
(* kind is "on" (struck with a velocity above 0), "off" (let go, or struck *)
(* with velocity 0) or "meta"; a key is a pair of a pitch and a channel.   *)
(* Velocities, tempo and names are left out, and beats, which are ticks    *)
(* divided by a constant.                                                  *)
(***************************************************************************)
EXTENDS Naturals, Sequences, SequencesExt

CONSTANTS NoteRows,    \* NOTE_ROWS: the pitches there are
          RowHeight,   \* NOTE_ROW_HEIGHT
          Width        \* of the image, in pixels

ASSUME ImageOK == NoteRows \in Nat /\ RowHeight \in Nat \ {0} /\ Width \in Nat \ {0}

Larger(m, n) == IF m > n THEN m ELSE n

Note(key, start, end) == [key |-> key, start |-> start, end |-> end]

\* A key struck while it is held: parse_midi_bytes takes the later start.
TakeLast(held, key, tick) ==
    [k \in DOMAIN held \cup {key} |-> IF k = key THEN tick ELSE held[k]]

\* Mutant: the renderer does, too.
KeepLast(held, key, tick) == TakeLast(held, key, tick)

\* _parse_note_events keeps the earlier one.
KeepFirst(held, key, tick) ==
    [k \in DOMAIN held \cup {key} |-> IF k \in DOMAIN held THEN held[k] ELSE tick]

\* The two readers, named for what they make of the notes.
Strike(reader, held, key, tick) ==
    IF reader = "draws" THEN KeepFirst(held, key, tick) ELSE TakeLast(held, key, tick)

\* One message; held: the start of every key that is held; notes: those let
\* go.  To let go a key that is not held does nothing.
Read(reader, state, message) ==
    LET tick == state.tick + message.wait
        now  == [state EXCEPT !.tick = tick]
        key  == message.key
    IN  CASE message.kind = "on" -> [now EXCEPT !.held = Strike(reader, @, key, tick)]
          [] message.kind = "off" /\ key \in DOMAIN state.held ->
               [now EXCEPT !.held = Restrict(@, DOMAIN @ \ {key}),
                           !.notes = Append(@, Note(key, state.held[key], tick))]
          [] OTHER -> now

AtEnd(reader, track) ==
    FoldLeft(LAMBDA state, message : Read(reader, state, message),
              [tick |-> 0, held |-> <<>>, notes |-> <<>>], track)

\* The notes of keys still held at the end, which last a tick at least.
Dangling(state) ==
    LET keys == SetToSeq(DOMAIN state.held)
        start(i) == state.held[keys[i]]
    IN  [i \in DOMAIN keys |-> Note(keys[i], start(i), Larger(state.tick, start(i) + 1))]

\* _parse_note_events: of one track.
DrawnNotes(track) ==
    LET state == AtEnd("draws", track)
    IN  state.notes \o Dangling(state)

\* parse_midi_bytes: every note lasts a tick at least.
ParsedNotes(track) ==
    LET state == AtEnd("parses", track)
        notes == state.notes \o Dangling(state)
    IN  [i \in DOMAIN notes |-> [notes[i] EXCEPT !.end = Larger(@, notes[i].start + 1)]]

-----------------------------------------------------------------------------
(* The image. *)

TotalTicks(notes) == FoldLeft(LAMBDA total, note : Larger(total, note.end), 0, notes)

\* The columns of a note: one at least, and none beyond the image.  The code
\* divides and rounds down in floating point.
Columns(note, total) ==
    LET first == (note.start * Width) \div total
        after == Larger(first + 1, (note.end * Width) \div total)
    IN  (first..(after - 1)) \cap (0..(Width - 1))

\* The rows of a note that the canvas has: it is made of NoteRows of them.
Rows(note) ==
    LET base == note.key[1] * RowHeight
    IN  (base..(base + RowHeight - 1)) \cap (0..(NoteRows - 1))

\* _draw_note
Pixels(note, total) == IF total = 0 THEN {} ELSE Rows(note) \X Columns(note, total)
=============================================================================
