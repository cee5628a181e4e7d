-------------------------- MODULE MCServerProcess --------------------------
EXTENDS ServerProcessProperties

\* No file, an empty one, one of an earlier run, one with a foreign message.
AnyFile ==
  {NoFile, <<>>, <<Text(1), User("Ann")>>, <<Text(1), Other, User("Ann")>>}
=============================================================================
