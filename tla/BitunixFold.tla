----------------------------- MODULE BitunixFold -----------------------------
(* When a Bitunix minute is closed (candles/bitunix-fold.ts).  A push carries *)
(* no minute and no flag, only its time stamp: the bar of M is pushed again,  *)
(* finalised, after M+1 began, and then M+1 is seeded flat at M's close.      *)
(*                                                                            *)
(* A bar is its open, its close and its volume; the range is left out.  A     *)
(* time stamp is a minute and a time in it, the first InWindow of which are   *)
(* within BITUNIX_FINALISE_WINDOW_MS.  The venue sends what was measured of   *)
(* it: finalisations before the seed, none only if the last push was whole or *)
(* showed another close.  The socket may be lost at any point.                *)
EXTENDS Naturals, Sequences

CONSTANTS Prices,      \* close prices a trade can make
          MaxVolume,   \* bound: volume of one bar
          MaxBucket,   \* bound: minutes
          Times,       \* times in a minute, 0 .. Times - 1
          InWindow     \* how many of them are in the finalisation window

VARIABLES minute,      \* the venue's minute
          bar,         \* its bar of that minute
          past,        \* its final bars so far
          ended,       \* is the last of them not yet followed by the next seed
          time,        \* time stamp of the last push
          shown,       \* the bar as last pushed
          up,          \* is the socket up
          fold,        \* FoldState of the symbol
          out          \* what push() published

vars == <<minute, bar, past, ended, time, shown, up, fold, out>>

NoBar == [open |-> 0, close |-> 0, volume |-> 0]
Bar(o, c, v) == [open |-> o, close |-> c, volume |-> v]
Closing(b, m) == [bar |-> b, minute |-> m]
Nothing == Closing(NoBar, 0)

Bucket(ts) == ts \div Times

Empty == [bucket |-> 0, forming |-> NoBar, carry |-> NoBar, lastTs |-> 0,
          last |-> NoBar, awaitingSeed |-> FALSE, candidate |-> NoBar]

IsSeed(b) == b.volume = 0
Continues(b, push) == push.open = b.open /\ push.volume > 0 /\ push.volume >= b.volume

\* apply(): the state after a push, and the bar it closes.  An unresolved minute
\* is not published.
Keep(s) == [state |-> s, closed |-> Nothing]

SeededBy(b, ts) == [Empty EXCEPT !.bucket = Bucket(ts), !.forming = b, !.lastTs = ts, !.last = b]
Quarantined(b, ts) ==
    [Empty EXCEPT !.bucket = Bucket(ts), !.carry = b, !.awaitingSeed = TRUE,
                  !.lastTs = ts, !.last = b]

Restarted(b, ts) == Keep(IF IsSeed(b) THEN SeededBy(b, ts) ELSE Quarantined(b, ts))

Dropped(s, b, ts) ==
    \/ ts < s.lastTs
    \/ /\ ts = s.lastTs
       /\ \/ b = s.last
          \/ ~IsSeed(b) /\ (b.open # s.last.open \/ b.volume < s.last.volume)
    \/ Bucket(ts) < s.bucket

SameBucket(s, b, ts) ==
    IF s.awaitingSeed
    THEN IF IsSeed(b) THEN Keep(SeededBy(b, ts))
         ELSE Keep([s EXCEPT !.lastTs = ts, !.last = b, !.carry = b])
    ELSE IF b.open # s.forming.open \/ b.volume < s.forming.volume
         THEN Keep(Quarantined(b, ts))
         ELSE Keep(SeededBy(b, ts))

\* A mistake: the first bar of a minute closes the one before, whatever is amiss.
NextBucketTrusted(s, held, b, ts) ==
    [state |-> SeededBy(b, ts), closed |-> Closing(held, s.bucket)]

\* The next bucket begins: a continuing push in the window is the bar's
\* finalisation, a seed at its close proves it.
NextBucket(s, held, b, ts) ==
    LET timely == ts % Times < InWindow
        final  == s.candidate # NoBar
    IN  IF IsSeed(b)
        THEN [state  |-> SeededBy(b, ts),
              closed |-> IF b.open = held.close /\ (final => timely)
                         THEN Closing(held, s.bucket) ELSE Nothing]
        ELSE IF timely /\ Continues(held, b)
        THEN Keep([s EXCEPT !.candidate = b, !.carry = NoBar, !.lastTs = ts, !.last = b])
        ELSE Keep(Quarantined(b, ts))

Apply(s, b, ts) ==
    LET final   == s.candidate # NoBar
        joins   == s.bucket # 0 /\ ~final /\ Bucket(ts) = s.bucket
        follows == s.bucket # 0 /\ Bucket(ts) = s.bucket + 1 /\ (final \/ ~s.awaitingSeed)
    IN  IF s.lastTs # 0 /\ Dropped(s, b, ts) THEN Keep(s)
        ELSE CASE joins -> SameBucket(s, b, ts)
               [] follows -> NextBucket(s, IF final THEN s.candidate ELSE s.forming, b, ts)
               [] OTHER -> Restarted(b, ts)

Init ==
    /\ minute = 1 /\ time = Times
    /\ \E p \in Prices : bar = Bar(p, p, 0)
    /\ past = <<>> /\ ended = FALSE /\ shown = bar
    /\ up = TRUE /\ fold = Empty /\ out = <<>>

\* push(tick) of one frame, and the published bar.
Sends(b, ts) ==
    LET r == Apply(fold, b, ts) IN
    /\ ts >= time
    /\ time' = ts
    /\ fold' = IF up THEN r.state ELSE fold
    /\ out' = IF up /\ r.closed # Nothing THEN Append(out, r.closed) ELSE out

Trade(p) ==
    /\ ~ended /\ bar.volume < MaxVolume
    /\ bar' = Bar(bar.open, p, bar.volume + 1)
    /\ UNCHANGED <<minute, past, ended, time, shown, up, fold, out>>

Push(ts) ==
    /\ ~ended /\ Sends(bar, ts)
    /\ shown' = bar
    /\ UNCHANGED <<minute, bar, past, ended, up>>

MinuteEnds ==
    /\ ~ended /\ minute < MaxBucket
    /\ minute' = minute + 1
    /\ past' = Append(past, bar)
    /\ ended' = TRUE
    /\ UNCHANGED <<bar, time, shown, up, fold, out>>

Finalise(ts) ==
    /\ ended /\ bar.volume > 0 /\ Sends(bar, ts)
    /\ shown' = bar
    /\ UNCHANGED <<minute, bar, past, ended, up>>

Seed(ts) ==
    /\ ended /\ (shown = bar \/ shown.close # bar.close)
    /\ bar' = Bar(bar.close, bar.close, 0)
    /\ Sends(bar', ts)
    /\ ended' = FALSE /\ shown' = bar'
    /\ UNCHANGED <<minute, past, up>>

\* clear(), when the pool lets go of the connection.
SocketLost == up /\ up' = FALSE /\ fold' = Empty /\ UNCHANGED <<minute, bar, past, ended, time, shown, out>>
SocketBack == ~up /\ up' = TRUE /\ UNCHANGED <<minute, bar, past, ended, time, shown, fold, out>>

Next ==
    \/ \E p \in Prices : Trade(p)
    \/ MinuteEnds \/ SocketLost \/ SocketBack
    \/ \E t \in 0 .. Times - 1 :
        LET ts == minute * Times + t IN Push(ts) \/ Finalise(ts) \/ Seed(ts)

Spec == Init /\ [][Next]_vars
-----------------------------------------------------------------------------
\* Wherever the stream is cut and whatever is late: a published minute carries
\* the venue's final bar of that very minute, and none is published twice.
ClosedIsFinal ==
    \A i \in DOMAIN out :
        /\ out[i].minute \in DOMAIN past /\ out[i].bar = past[out[i].minute]
        /\ \A j \in DOMAIN out : i < j => out[i].minute < out[j].minute
=============================================================================
