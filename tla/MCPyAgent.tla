---------------------------- MODULE MCPyAgent ----------------------------
EXTENDS PyAgent

\* two runs on one or two slots, loops of at most two model calls, one crash, a process that
\* gives up at the second attempt to connect
MCRequests == {[provider |-> "anthropic", rate |-> "never"],
               [provider |-> "anthropic", rate |-> "always"],
               [provider |-> "gemini", rate |-> "never"]}
MCUsages == {[input |-> 2, cached |-> 1, output |-> 1]}
MCPrices == [input |-> 10, cached |-> 1, output |-> 50]
MCErrors == {{"timeout", "server_error"}}
==========================================================================
