----------------------------- MODULE MCRequests ------------------------------
(* Requests with the sources the demo program mounts, and a rewrite. *)
EXTENDS Requests

SomeWords == HeaderNames \union
  {"websocket", "close", "multipart/form-data", "application/x-www-form-urlencoded"}

SomeStyles ==
  {[capital |-> FALSE, gap |-> <<" ">>, quoted |-> FALSE, reversed |-> FALSE],
   [capital |-> TRUE, gap |-> << >>, quoted |-> TRUE, reversed |-> TRUE],
   [capital |-> TRUE, gap |-> <<" ", " ">>, quoted |-> FALSE, reversed |-> FALSE]}

\* MiniWebSrv.cpp, main().
Mount(prefix, source) == [prefix |-> prefix, exact |-> FALSE, source |-> source]
SomeHolders ==
  <<Mount(<<"/", "gallery">>, "zip"), Mount(<<"/", "formtest">>, "generic"),
    Mount(<<"/", "echo">>, "ws"),
    [prefix |-> <<"/", "static">>, exact |-> TRUE, source |-> "static"],
    Mount(<<"/", "corotest">>, "generic"), Mount(<< >>, "fs")>>
SomeRewrites ==
  (<<"/">> :> [target |-> <<"/", "test">>, redirect |-> TRUE])
    @@ (<<"/", "old">> :> [target |-> <<"/", "gallery", "/", "pic">>, redirect |-> FALSE])

Doc == << <<"srv">>, <<"Doc">> >>
SomeTree ==
  (<< >> :> "dir") @@ (<< <<"srv">> >> :> "dir") @@ (Doc :> "dir")
    @@ (<< <<"srv">>, <<"Doc", "s">> >> :> "dir")
    @@ (<< <<"srv">>, <<"Doc", "s">>, <<"test">> >> :> "file")
    @@ (Append(Doc, <<"test">>) :> "file") @@ (Append(Doc, <<"gallery", "s">>) :> "file")
    @@ (Append(Doc, <<"dir">>) :> "dir")
SomeFile == Append(Doc, <<"test">>)
SomeEntries == {<<"pic">>, <<"sub", "/", "pic">>}
SomeOrigins == {12 * 3 + month : month \in {0, 1, 2, 4, 6, 8, 10, 11}}
SomeYears == 2 .. 4

Get(resource) == [Plain EXCEPT !.resource = resource]
Revalidate(resource) == [Get(resource) EXCEPT !.since = Cached]
Upgrade(resource, protocols) ==
  [Get(resource) EXCEPT !.upgrade = TRUE, !.key = TRUE, !.version = "13",
                        !.protocols = protocols]
Options(resource, headers) ==
  [Get(resource) EXCEPT !.method = "OPTIONS", !.asksMethod = TRUE, !.asksHeaders = headers]
Post(resource, content) ==
  [Get(resource) EXCEPT !.method = "POST", !.content = content, !.length = TRUE]
Upload(boundary, name, isFile, filename) ==
  [Post(<<"/", "formtest">>, "FORM_MULTIPART") EXCEPT
     !.boundary = boundary, !.name = name, !.isFile = isFile, !.filename = filename]

Echo == <<"/", "echo">>
Test == <<"/", "test">>
Pic == <<"/", "gallery", "/", "pic">>
SomeMeanings ==
  {Get(r) : r \in
     {<< >>, <<"/">>, Test, <<"/", "/", "test">>, <<"/", "old">>, Pic, <<"/", "gallery">>,
      <<"/", "gallery", "s">>, <<"/", "gallery", "/", "sub", "/", "pic">>,
      <<"/", "gallery", "/", "none">>, <<"/", "static">>, <<"/", "static", "/", "x">>,
      <<"/", "dir">>, <<"/", "corotest", "/", "x">>, <<"*">>, Echo,
      <<"/", "..", "/", "Doc", "s", "/", "test">>, <<"/", "..", "/", "..">>}}
  \union {Revalidate(r) : r \in {Test, Pic}}
  \union {[Get(Test) EXCEPT !.since = Other], [Get(Test) EXCEPT !.close = TRUE],
          [Get(Test) EXCEPT !.method = "HEAD"]}
  \union {Upgrade(Echo, ps) : ps \in
            {<< >>, << <<"chat">> >>, << <<"chat">>, <<"echo">> >>,
             << <<"echo">>, <<"chat">> >>}}
  \union {Upgrade(Test, << >>), [Upgrade(Echo, << >>) EXCEPT !.key = FALSE],
          [Upgrade(Echo, << >>) EXCEPT !.version = "8"]}
  \union {Options(Test, n) : n \in {0, 90, 91, 92, 93, 120}}
  \union {[Options(Test, 0) EXCEPT !.asksMethod = FALSE]}
  \union {Post(<<"/", "formtest">>, c) : c \in {"URL_ENCODED", "UNKNOWN"}}
  \union {[Post(<<"/", "formtest">>, "UNKNOWN") EXCEPT !.length = FALSE]}
  \union {Upload(<<"B">>, <<"a">>, FALSE, << >>),
          Upload(<<"B", ";", "x">>, <<"a", ";", " ", "b">>, TRUE, <<"f", " ", "g">>),
          Upload(<<"B">>, <<"a">>, TRUE, << >>)}
=============================================================================
