----------------------------- MODULE MCSchedule -----------------------------
(***************************************************************************)
(* Programme lists of every mode: windows that adjoin, overlap, begin or   *)
(* end at midnight, last two minutes or cross midnight, an item without    *)
(* windows, two items on one weekday, ranges of days.                      *)
(***************************************************************************)
EXTENDS Schedule

Windows(ws) == [weekday |-> 0, first |-> 0, last |-> 0, windows |-> ws]
Weekly(d, ws) == [weekday |-> d, first |-> 0, last |-> 0, windows |-> ws]
Ranged(d, e, ws) == [weekday |-> 0, first |-> d, last |-> e, windows |-> ws]

\* A single programme with two windows is a list of one item.
Divided == [mode |-> PLAY_REPEATDAY,
            items |-> << <<Windows({<<90000, 90100>>, <<235900, 240000>>})>> >>]

\* Item 2 follows item 1 at once; item 4 lies in item 3; item 5 has no windows.
Daily == [mode |-> PLAY_REPEATDAY,
          items |-> << <<Windows({<<0, 100>>})>>,
                       <<Windows({<<100, 5900>>, <<120000, 120200>>})>>,
                       <<Windows({<<120100, 130000>>})>>,
                       <<Windows({<<121000, 122000>>})>>,
                       <<>> >>]

Night == [mode |-> PLAY_REPEATDAY,
          items |-> << <<Windows({<<220000, 60000>>})>>,
                       <<Windows({<<70000, 70100>>, <<215900, 220000>>})>> >>]

\* Sunday is 6.
Week == [mode |-> PLAY_WEEKDAY,
         items |-> << <<Weekly(6, {<<80000, 80100>>}), Weekly(0, {<<0, 300>>})>>,
                      <<Weekly(0, {<<235900, 240000>>}), Weekly(1, {<<0, 1000>>})>>,
                      <<Weekly(6, {<<80100, 80200>>})>> >>]

Dates == [mode |-> PLAY_CUSTOMIZE,
          items |-> << <<Ranged(1, 2, {<<100000, 240000>>})>>,
                       <<Ranged(2, 3, {<<0, 2000>>}), Ranged(5, 5, {<<100, 200>>})>> >>]

MCLists == {Divided, Daily, Night, Week, Dates}

\* Sunday morning, the ends of a window and of a day, Saturday noon
MCStarts == {0, 8 * 3600 + 60, DaySeconds - 1, 6 * DaySeconds + 12 * 3600}
MCAsks == {60, 12 * 3600 + 61, DaySeconds - 5}

=============================================================================
