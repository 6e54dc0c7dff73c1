\* server.send calls core.send, which is server.send.
CONSTANTS
  NumTypes = 2
  MaxNested = 3
SPECIFICATION Spec
PROPERTY SendSends
