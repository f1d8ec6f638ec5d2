------------------------------- MODULE LogView -------------------------------
(***************************************************************************)
(* The viewer (deeplog-cli): it loads the containers of a file database    *)
(* through a stream of chunks, sorts their records by time, and shows as   *)
(* many as there is room for around the selected one.                      *)
(***************************************************************************)
EXTENDS RecordPath

CONSTANTS
    ChunkBytes,  \* buffer_size of the input stream
    Huge,        \* rows of the display before it is first laid out
    Screens,     \* rows the screen may have for records, at first the most
    MaxResizes   \* bound on how often that changes

ASSUME ViewAssumption ==
    /\ Huge \in Nat \ {0} /\ Screens \subseteq Nat \ {0}
    /\ \E m \in Screens : \A n \in Screens : n <= m

VARIABLES
    viewing,      \* the viewer runs
    loaded,       \* the containers that could be loaded, as in mClosedContainers
    shown,        \* mDisplayRecords: the fields of each record and its container
    displayEpoch, \* display_epoch
    grid,         \* mSelected, mLastLines, rows of mDisplayBox, and the screen's rows
    window,       \* the first record that is shown and the one after the last
    frame,        \* why a frame is due: an event, RequestAnimationFrame(), or none
    (* history *)
    resizes       \* how often the screen changed its size

viewVars == <<viewing, loaded, shown, displayEpoch, grid, window, frame, resizes>>
pathVars == <<busVars, steady, clockVars, containerVars>>
vars == <<pathVars, viewVars>>

InitView ==
    /\ viewing = FALSE /\ loaded = {} /\ shown = <<>> /\ displayEpoch = 0
    /\ grid \in [selected : {0}, lastLines : {0}, rows : {Huge}, screen : {Max(Screens)}]
    /\ window = <<0, 0>> /\ frame = "none" /\ resizes = 0

-----------------------------------------------------------------------------
(* Loading.                                                                 *)

Magic == Item("magic", 0, 16, 0)
Header(c) ==
    <<Magic, Map(3), Uint(0), Uint(0), Uint(4), Array(2), Wide(c.epoch), Wide(0), Uint(23)>>
    \o SinkAttributes(attributes) \o <<Item("array", 0, 1, 0)>>
Content(c) == Header(c) \o FlattenSeq(c.messages) \o IF c.ended THEN <<Break>> ELSE <<>>

Lesser(m, n) == IF m < n THEN m ELSE n

\* os_input_stream: the offset of the next chunk, how much is buffered, how much was
\* taken, and whether all of it was what the file has there.
Opened(total) == [next |-> Lesser(total, ChunkBytes), have |-> Lesser(total, ChunkBytes),
                  taken |-> 0, exact |-> TRUE]

\* read_next_chunk() reads what is left in the buffer again, but not so the offset.
Refilled_FromNext(s, total) ==  \* mutant: what is left is dropped
    LET got == Lesser(ChunkBytes, total - s.next)
    IN [s EXCEPT !.next = @ + got, !.have = got, !.exact = @ /\ got > 0 /\ s.have = 0]
Refilled(s, total) ==
    LET from == s.next - s.have
        got == Lesser(ChunkBytes, total - from)
    IN [s EXCEPT !.next = @ + got, !.have = got, !.exact = @ /\ got > 0 /\ from = s.taken]

Taken(s, n) == [s EXCEPT !.have = @ - n, !.taken = @ + n, !.exact = @ /\ n <= s.have]

\* A head is wanted as a whole, a body may come in two parts.
ReadHead(s, item, total) ==
    Taken(IF s.have < item.head THEN Refilled(s, total) ELSE s, item.head)
ReadBody(s, item, total) ==
    IF item.body <= s.have THEN Taken(s, item.body)
    ELSE Taken(Refilled(Taken(s, s.have), total), item.body - s.have)

ReadsExactly(items) ==
    LET total == Bytes(items)
        Read(s, item) == IF s.exact THEN ReadBody(ReadHead(s, item, total), item, total) ELSE s
    IN Fold(Read, Opened(total), items).exact

\* The attributes must be all there is before the list of records.
ReadsInfo ==
    LET items == SinkAttributes(attributes)
        parse == Parse(Fields, <<"attributes">>, items)
    IN Parsed(parse) /\ parse.used = Len(items)

\* A list without an end, a record that is not decoded, or bytes from the wrong place make
\* the whole container fail.
Loads(c) ==
    /\ c.ended /\ ReadsInfo
    /\ \A k \in DOMAIN c.messages : Decodes(c.messages[k])
    /\ ReadsExactly(Content(c))

\* Only records are shown; the messages of spans have no severity.  They are sorted by
\* time, those with the same time as they are in the containers.
RecordsOf(k) == {j \in DOMAIN containers[k].messages : Kind(containers[k].messages[j]) = "record"}
Places(order) == UNION {{<<p, j>> : j \in RecordsOf(order[p])} : p \in DOMAIN order}
Sorted(order) ==
    LET row == [at \in Places(order) |->
                  [container |-> order[at[1]],
                   fields |-> Decoded(containers[order[at[1]]].messages[at[2]])]]
        Earlier(a, b) ==
            \/ row[a].fields.time < row[b].fields.time
            \/ /\ row[a].fields.time = row[b].fields.time
               /\ a[1] < b[1] \/ (a[1] = b[1] /\ a[2] < b[2])
        sorted == InOrder(Places(order), Earlier)
    IN [k \in DOMAIN sorted |-> row[sorted[k]]]

\* The containers are kept by path in no particular order.
View ==
    /\ ~running /\ ~viewing /\ viewing' = TRUE
    /\ loaded' = {k \in DOMAIN containers : Loads(containers[k])}
    /\ \E order \in SetToSeqs(loaded') : shown' = Sorted(order)
    /\ displayEpoch' = IF loaded' = {} THEN 0 ELSE containers[Max(loaded')].epoch
    /\ frame' = "event"
    /\ UNCHANGED <<grid, window, resizes>>

-----------------------------------------------------------------------------
(* The display (LogDisplayGridComponent).                                   *)

\* compute_render_window()
RenderWindow_Half(selected, count, lines) ==  \* mutant: the middle is not rounded up
    LET split == lines \div 2
    IN IF count <= lines THEN <<0, count>>
       ELSE IF selected <= split + 1 THEN <<0, lines>>
       ELSE IF split >= count - selected THEN <<count - lines, count>>
       ELSE <<selected - split, selected + split>>
RenderWindow(selected, count, lines) ==
    LET split == (lines + 1) \div 2
    IN IF count <= lines THEN <<0, count>>
       ELSE IF selected <= split THEN <<0, lines>>
       ELSE IF split >= count - selected THEN <<count - lines, count>>
       ELSE <<selected - split, selected + split>>

\* A display that grew takes more lines at once.
Lines == LET lines == grid.rows + 1
         IN IF lines > grid.lastLines THEN (lines * 3) \div 2 ELSE lines

NextGrid_KeepsLast(rows) == [grid EXCEPT !.rows = Lesser(rows, grid.screen)]  \* mutant
NextGrid(rows) == [grid EXCEPT !.lastLines = Lines, !.rows = Lesser(rows, grid.screen)]

\* OnRender(), and the layout that gives the rows the room there is.
Render ==
    /\ frame # "none"
    /\ window' = RenderWindow(grid.selected, Len(shown), Lines)
    /\ frame' = IF Lines # grid.lastLines THEN "animation" ELSE "none"
    /\ grid' = NextGrid(window'[2] - window'[1])
    /\ UNCHANGED <<viewing, loaded, shown, displayEpoch, resizes>>

Moves(selected) ==
    LET up == IF selected = 0 THEN 0 ELSE selected - 1
        pageUp == IF selected < grid.rows THEN 0 ELSE selected - grid.rows
        last == Len(shown) - 1
    IN {up, Lesser(selected + 1, last), 0, last, pageUp, Lesser(selected + grid.rows, last)}

\* OnEvent(): the arrows, Home, End, PageUp and PageDown.
Key ==
    /\ shown # <<>>
    /\ \E selected \in Moves(grid.selected) : grid' = [grid EXCEPT !.selected = selected]
    /\ frame' = "event"
    /\ UNCHANGED <<viewing, loaded, shown, displayEpoch, window, resizes>>

Resize ==
    /\ resizes < MaxResizes /\ resizes' = resizes + 1
    /\ \E screen \in Screens \ {grid.screen} : grid' = [grid EXCEPT !.screen = screen]
    /\ frame' = "event"
    /\ UNCHANGED <<viewing, loaded, shown, displayEpoch, window>>

Init == InitPath /\ InitView
ViewStep == View \/ (viewing /\ (Render \/ Key \/ Resize))
Next == (PathStep /\ UNCHANGED viewVars) \/ (ViewStep /\ UNCHANGED pathVars)

Spec == Init /\ [][Next]_vars /\ WF_vars(viewing /\ Render /\ UNCHANGED pathVars)

-----------------------------------------------------------------------------
\* A record that was logged without an error, with arguments the viewer knows, and that
\* passed the sink's threshold.
Logged(k) == SelectSeq(accepted, LAMBDA a :
    a.into = k /\ a.call.fn = "log" /\ a.call.sev >= Threshold)

Known(a) == a.ok /\ (a.call.fn = "log" =>
                       \A k \in DOMAIN a.call.args : Tag(a.call.args[k].cpp) \in KnownArguments)

\* A container can be read if its list was ended, the sink's attributes and all arguments
\* are of types the viewer knows, no call failed that wrote to it, no attribute is sized
\* too large, and the input stream fills its buffer at most twice.
Readable(k) ==
    /\ containers[k].ended
    /\ \A j \in DOMAIN attributes : /\ attributes[j].id \in KnownAttributes
                                    /\ attributes[j].value.cpp = "unsigned"
    /\ \A i \in DOMAIN accepted : accepted[i].into = k => Known(accepted[i])
    /\ Bytes(Content(containers[k])) <= 2 * ChunkBytes - 8

\* The records of container k as they were logged.
Wanted(k) ==
    LET logged == Logged(k)
    IN [j \in DOMAIN logged |->
          [container |-> k,
           fields |-> [severity |-> logged[j].call.sev, scope |-> logged[j].call.scope # None,
                       span |-> logged[j].call.span, time |-> logged[j].time,
                       text |-> logged[j].id]]]

\* The viewer shows every record of the containers that can be read, as it was logged and
\* in the order of time.
ShowsWhatWasLogged ==
    [][~viewing /\ viewing' =>
         /\ \A k \in DOMAIN containers : Readable(k) =>
              SelectSeq(shown', LAMBDA r : r.container = k) = Wanted(k)
         /\ \A i, j \in DOMAIN shown' : i < j => shown'[i].fields.time <= shown'[j].fields.time]_vars

\* Whatever the keys and the sizes of the screen, a frame has the selected record.
SelectedVisible ==
    frame # "event" /\ shown # <<>> =>
      window[1] <= grid.selected /\ grid.selected < window[2] /\ window[2] <= Len(shown)

\* The display does not redraw itself forever.
RenderSettles == frame # "none" ~> frame = "none"
=============================================================================
