SPECIFICATION Spec
CONSTANTS
    Bindings = {"freertos"}
    Timeout = 2
    Width = 5
    CommandSize = 1
    Size = 2
PROPERTY LateIgnored
