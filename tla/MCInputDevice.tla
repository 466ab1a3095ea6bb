---------------------------- MODULE MCInputDevice ----------------------------
(* Descriptors of one or two collections: on any page or on the page before,  *)
(* with a report ID, with bytes that look like one, with a digitizer nested    *)
(* in it; and some with an end too many, too few or with data of its own, or   *)
(* with an item cut off.                                                       *)
EXTENDS InputDevice

Pages == {<<>>, <<Page(1), Usage(2)>>, <<Page(Digitizer)>>}
Numbers == {<<>>, <<Id(1)>>, <<Id(5)>>, <<Most(1)>>, <<Id(1), Span>>}
Inners == {<<Input>>, <<Open(0), Page(Digitizer), Close, Input>>, <<Open(0), Close, Input>>}

Collections ==
  {p \o <<Open(1)>> \o r \o c \o <<Close>> : p \in Pages, r \in Numbers, c \in Inners}

Malformed ==
  {<<Close>> \o c : c \in Collections}
    \cup {c \o <<Page(Digitizer), Torn>> : c \in Collections}
    \cup {<<Open(1)>> \o c : c \in Collections}
    \cup {<<Open(1), Input, Item("close", 1)>> \o c : c \in Collections}

MCDescriptors ==
  Collections \cup Malformed \cup {c \o d : c, d \in Collections}

MCFallback == <<Page(1), Usage(5), Open(1), Id(1), Page(1), Usage(48), Input, Close>>

\* Nothing; volume up; a key, which as a usage has no key; in reports of three
\* bytes nothing, and a key with a modifier that is also a report ID; and a report
\* of one byte.
MCValues == {<<0, 0>>, <<233, 0>>, <<0, 4>>, <<0, 0, 0>>, <<1, 0, 4>>, <<0>>}
=============================================================================
