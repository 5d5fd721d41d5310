-------------------------- MODULE MCSseByteStream --------------------------
EXTENDS SseByteStream

Text(event, data) == [utf8 |-> TRUE, event |-> event, data |-> data]

SomeTexts ==
    {Text("head", "json"), Text("payload_attributes", "json"),
     Text("head", "garbled"), Text("head", "empty"), Text("other", "json"),
     [Text("head", "json") EXCEPT !.utf8 = FALSE]}

============================================================================
